---- MODULE Spec2Model ----
(***************************************************************************)
(* PaSGAL: local alignment of a read to a character DAG.                   *)
(* Model of src/src/include/align.hpp: the forward sweep (Phase 1), the    *)
(* strand selection of alignToDAGLocal, the reverse sweep (Phase 1-R) and   *)
(* the banded recomputation with traceback (Phase 2), for one worker        *)
(* (Spec, ScenarioSpec, RerunSpec) and for a team of workers (ParSpec),      *)
(* and CSR_container::sort, the relabelling of the loaded graph (SortSpec).  *)
(* Vectors are 0-based functions, as in the source.  A failed assert()      *)
(* stops the run in pc = "abort" with the assertion's name in `failed'.     *)
(***************************************************************************)
EXTENDS Integers, Sequences, FiniteSets, TLC

\* Bounds of the model
MaxV == 3        \* largest number of char-vertices of the graph
MaxLen == 3      \* largest read length
MaxParam == 1    \* largest value of each scoring parameter
NumWorkers == 2  \* threads of the team
ParMaxV == 2     \* largest number of char-vertices when a team of workers runs
ParMaxLen == 2   \* largest read length when a team of workers runs
SortMaxV == 3    \* largest number of vertices of a graph given to sort()

\* two complementary bases, so that the reverse complement of a read is a read
Alphabet == {"A", "T"}

VARIABLES
  graph,                  \* CSR char graph: numVertices, vertex_label, offsets_*, adjcny_*
  readSet,                \* input reads, 0-based vector of character sequences
  parameters,             \* match, mismatch, ins, del
  pc,                     \* position of the dispatcher / worker
  failed,                 \* name of the assertion that failed, or "none"
  readSet_P1,             \* reads handed to Phase 1 (two per input read)
  bestScoreVector_P1,     \* Phase 1 results, two per input read
  matrix,                 \* the worker's two-row ring
  readno, i, j,           \* loop counters of the running sweep
  bestScore, bestRow, bestCol,
  outputBestScoreVector,  \* one BestScoreInfo per input read
  readSet_P1_R,           \* reversed reads handed to Phase 1-R
  readSet_P2,             \* reads handed to Phase 2
  revLog,                 \* values stored by the reverse sweep, by <<i, j>>
  completeMatrixLog,      \* Phase 2: vertical differences, int8
  finalRow,               \* Phase 2: scores of the last row of the rectangle
  currentRowScores,       \* Phase 2 traceback: scores of row `row'
  row, col,               \* Phase 2 traceback position inside the rectangle
  cigar,                  \* Phase 2 traceback: emitted operations
  used_cols,              \* Phase 2 traceback: visited columns
  p2run,                  \* which call of alignToDAGLocal_Phase2 is running: 1 or 2
  firstRunOutput,         \* the records as the first call of Phase 2 left them
  mode,                   \* "seq": one worker, reads in order; "par": a team of workers
  phase,                  \* the parallel region the team is in: "P1", "P1R", "P2"
  tid,                    \* the worker whose private state the variables above hold
  parked,                 \* the private states of the workers that are not running
  nextIter,               \* schedule(dynamic): the next iteration to hand out
  writers,                \* per region and result slot, the workers that stored into it
  serialOutput,           \* the outcome of the single-worker run on the same input
  csr,                    \* CSR_container being sorted
  csr_before,             \* the container as it was before sort() relabelled it
  finalOrder, tmpOrder,   \* topologicalSort: vertex -> position
  deg, Q, currentOrder,   \* topologicalSort: one run of Kahn's algorithm
  run,                    \* topologicalSort: index of the run
  minbandwidth            \* topologicalSort: least bandwidth so far

p1vars == << readSet_P1, bestScoreVector_P1 >>
p2vars == << completeMatrixLog, finalRow, currentRowScores, row, col, cigar, used_cols >>
input  == << graph, readSet, parameters >>
rerunvars == << p2run, firstRunOutput >>
parvars == << mode, phase, tid, parked, nextIter, writers, serialOutput >>
sortvars == << csr, csr_before, finalOrder, tmpOrder, deg, Q, currentOrder, run, minbandwidth >>
others == << rerunvars, parvars, sortvars >>

vars == << graph, readSet, parameters, pc, failed, readSet_P1, bestScoreVector_P1,
           matrix, readno, i, j, bestScore, bestRow, bestCol,
           outputBestScoreVector, readSet_P1_R, readSet_P2, revLog,
           completeMatrixLog, finalRow, currentRowScores, row, col, cigar, used_cols,
           rerunvars, parvars, sortvars >>

----------------------------------------------------------------------------
\* Helpers

psgl_max(a, b) == IF a > b THEN a ELSE b

\* the largest element of a finite non-empty set of integers
SetMax(S) == CHOOSE x \in S : \A y \in S : y <= x

\* x & 1 on a two's complement integer: (-1) & 1 = 1
And1(x) == x % 2

\* a 0-based vector of length n filled with v
Vec(n, v) == [k \in 0..(n - 1) |-> v]

VecLen(v) == Cardinality(DOMAIN v)

\* push_back on a 0-based vector
PushBack(v, x) == [k \in 0..VecLen(v) |-> IF k < VecLen(v) THEN v[k] ELSE x]

\* a character sequence (1-based) as a 0-based string
Str(s) == [k \in 0..(Len(s) - 1) |-> s[k + 1]]

\* lexicographic order on <from, to> pairs, the order std::sort gives
PairLess(e, f) == e[1] < f[1] \/ (e[1] = f[1] /\ e[2] < f[2])

\* the k-th pair (0-based) of a finite set of pairs in sorted order
KthPair(S, k) == CHOOSE e \in S : Cardinality({f \in S : PairLess(f, e)}) = k

\* CSR_container::initEdges: out-adjacency from the sorted edge vector,
\* in-adjacency from the sorted vector of the swapped pairs
initEdges(n, diEdges, labels) ==
  LET m == Cardinality(diEdges)
      swapped == {<<e[2], e[1]>> : e \in diEdges}
  IN [ numVertices  |-> n,
       numEdges     |-> m,
       vertex_label |-> labels,
       offsets_out  |-> [v \in 0..n |-> Cardinality({e \in diEdges : e[1] < v})],
       adjcny_out   |-> [k \in 0..(m - 1) |-> KthPair(diEdges, k)[2]],
       offsets_in   |-> [v \in 0..n |-> Cardinality({e \in swapped : e[1] < v})],
       adjcny_in    |-> [k \in 0..(m - 1) |-> KthPair(swapped, k)[2]] ]

\* value-initialised BestScoreInfo
EmptyInfo ==
  [ score |-> 0, refColumnStart |-> 0, refColumnEnd |-> 0, qryRowStart |-> 0,
    qryRowEnd |-> 0, strand |-> "", qryId |-> 0, cigar |-> <<>>, refColumns |-> <<>> ]

\* the input graphs: every topologically numbered char-DAG of at most MaxV vertices
ForwardPairs(n) == {e \in (0..(n - 1)) \X (0..(n - 1)) : e[1] < e[2]}

\* the input reads: every read of at most MaxLen characters, the empty read included
\* (kseq_read returns records of length 0 and they are pushed as they are)
Reads == UNION {[1..l -> Alphabet] : l \in 0..MaxLen}

Schemes == [match : 0..MaxParam, mismatch : 0..MaxParam, ins : 0..MaxParam, del : 0..MaxParam]

----------------------------------------------------------------------------
\* the single call of Phase 2, the single worker and the idle sort of the main run
RerunInit == p2run = 1 /\ firstRunOutput = <<>>

SeqInit ==
  /\ mode = "seq" /\ phase = "none" /\ tid = 0 /\ parked = <<>> /\ nextIter = 0
  /\ writers = <<>> /\ serialOutput = <<>>

SortIdle ==
  /\ csr = <<>> /\ csr_before = <<>> /\ finalOrder = <<>> /\ tmpOrder = <<>>
  /\ deg = <<>> /\ Q = <<>> /\ currentOrder = 0 /\ run = 0 /\ minbandwidth = 0

\* everything alignToDAGLocal declares, before its first statement
LocalsInit ==
  /\ pc = "start"
  /\ failed = "none"
  /\ readSet_P1 = <<>>
  /\ bestScoreVector_P1 = <<>>
  /\ readno = 0 /\ i = 0 /\ j = 0
  /\ bestScore = 0 /\ bestRow = 0 /\ bestCol = 0
  /\ outputBestScoreVector = <<>>
  /\ readSet_P1_R = <<>>
  /\ readSet_P2 = <<>>
  /\ revLog = <<>>
  /\ completeMatrixLog = <<>>
  /\ finalRow = <<>>
  /\ currentRowScores = <<>>
  /\ row = 0 /\ col = 0
  /\ cigar = <<>>
  /\ used_cols = <<>>

Init ==
  /\ \E n \in 1..MaxV :
       \E diEdges \in SUBSET ForwardPairs(n) :
         \E labels \in [0..(n - 1) -> Alphabet] :
           /\ graph = initEdges(n, diEdges, labels)
           /\ matrix = Vec(2, Vec(n, 0))
  /\ \E q \in Reads : readSet = Vec(1, Str(q))
  /\ parameters \in Schemes
  /\ LocalsInit
  /\ RerunInit /\ SeqInit /\ SortIdle

----------------------------------------------------------------------------
\* alignToDAGLocal, lines 509-541: the Phase 1 read set holds every read twice
\* (the push of read_reverse is commented out in the source)
RECURSIVE BuildReadSet_P1(_, _)
BuildReadSet_P1(rn, acc) ==
  IF rn >= VecLen(readSet) THEN acc
  ELSE BuildReadSet_P1(rn + 1, PushBack(PushBack(acc, readSet[rn]), readSet[rn]))

PreparePhase1 ==
  /\ pc = "start"
  /\ readSet_P1' = BuildReadSet_P1(0, <<>>)
  /\ bestScoreVector_P1' = Vec(2 * VecLen(readSet), EmptyInfo)
  /\ matrix' = Vec(2, Vec(graph.numVertices, 0))
  /\ readno' = 0
  /\ pc' = "P1_begin"
  /\ UNCHANGED << input, others, failed, i, j, bestScore, bestRow, bestCol,
                  outputBestScoreVector, readSet_P1_R, readSet_P2, revLog, p2vars >>

----------------------------------------------------------------------------
\* Phase 1, forward sweep

matchScoreOf(curChar, qryChar) ==
  IF curChar = qryChar THEN parameters.match ELSE (-1) * parameters.mismatch

\* mutant: the deletion edit of line 98 is left out
RECURSIVE NbrMax_noDeletion(_, _, _, _, _, _, _)
NbrMax_noDeletion(cur, k, kEnd, adjcny, aboveRow, thisRow, matchScore) ==
  IF k >= kEnd THEN cur
  ELSE NbrMax_noDeletion(psgl_max(cur, aboveRow[adjcny[k]] + matchScore),
                         k + 1, kEnd, adjcny, aboveRow, thisRow, matchScore)

\* the loop over the neighbours adjcny[k], k in [k, kEnd): match and deletion edits
RECURSIVE NbrMax(_, _, _, _, _, _, _)
NbrMax(cur, k, kEnd, adjcny, aboveRow, thisRow, matchScore) ==
  IF k >= kEnd THEN cur
  ELSE LET viaMatch == psgl_max(cur, aboveRow[adjcny[k]] + matchScore)
           viaDel   == psgl_max(viaMatch, thisRow[adjcny[k]] - parameters.del)
       IN NbrMax(viaDel, k + 1, kEnd, adjcny, aboveRow, thisRow, matchScore)

\* mutant: the row above is read from ring row i & 1
Phase1_currentMax_sameRingRow ==
  LET matchScore == matchScoreOf(graph.vertex_label[j], readSet_P1[readno][i])
      start      == psgl_max(0, matchScore)
      nbrs       == NbrMax(start, graph.offsets_in[j], graph.offsets_in[j + 1],
                           graph.adjcny_in, matrix[And1(i)], matrix[And1(i)], matchScore)
  IN psgl_max(nbrs, matrix[And1(i)][j] - parameters.ins)

\* currentMax of cell (i, j) of the forward sweep, from the ring
Phase1_currentMax ==
  LET matchScore == matchScoreOf(graph.vertex_label[j], readSet_P1[readno][i])
      start      == psgl_max(0, matchScore)
      nbrs       == NbrMax(start, graph.offsets_in[j], graph.offsets_in[j + 1],
                           graph.adjcny_in, matrix[And1(i - 1)], matrix[And1(i)], matchScore)
  IN psgl_max(nbrs, matrix[And1(i - 1)][j] - parameters.ins)

\* mutant: ring row 1 is not reset between reads (line 67 left out)
Phase1_BeginRead_noReset ==
  /\ pc = "P1_begin"
  /\ matrix' = matrix
  /\ bestScore' = 0 /\ bestRow' = 0 /\ bestCol' = 0
  /\ i' = 0 /\ j' = 0
  /\ pc' = IF VecLen(readSet_P1[readno]) > 0 THEN "P1_cell" ELSE "P1_end"
  /\ UNCHANGED << input, others, failed, p1vars, readno, outputBestScoreVector,
                  readSet_P1_R, readSet_P2, revLog, p2vars >>

\* lines 66-72: the start of the sweep of one read
Phase1_BeginRead ==
  /\ pc = "P1_begin"
  /\ matrix' = [matrix EXCEPT ![1] = Vec(graph.numVertices, 0)]
  /\ bestScore' = 0 /\ bestRow' = 0 /\ bestCol' = 0
  /\ i' = 0 /\ j' = 0
  /\ pc' = IF VecLen(readSet_P1[readno]) > 0 THEN "P1_cell" ELSE "P1_end"
  /\ UNCHANGED << input, others, failed, p1vars, readno, outputBestScoreVector,
                  readSet_P1_R, readSet_P2, revLog, p2vars >>

\* mutant: only a strictly better cell replaces the best cell (line 109 with >)
Phase1_Cell_strictUpdate ==
  /\ pc = "P1_cell"
  /\ LET currentMax == Phase1_currentMax
         best       == psgl_max(bestScore, currentMax)
         lastCol    == (j + 1 >= graph.numVertices)
         lastRow    == (i + 1 >= VecLen(readSet_P1[readno]))
     IN /\ matrix' = [matrix EXCEPT ![And1(i)][j] = currentMax]
        /\ bestScore' = best
        /\ bestCol' = IF currentMax > bestScore THEN j ELSE bestCol
        /\ bestRow' = IF currentMax > bestScore THEN i ELSE bestRow
        /\ j' = IF lastCol THEN 0 ELSE j + 1
        /\ i' = IF lastCol THEN i + 1 ELSE i
        /\ pc' = IF lastCol /\ lastRow THEN "P1_end" ELSE "P1_cell"
  /\ UNCHANGED << input, others, failed, p1vars, readno, outputBestScoreVector,
                  readSet_P1_R, readSet_P2, revLog, p2vars >>

\* one cell of the forward sweep (lines 78-112)
Phase1_Cell ==
  /\ pc = "P1_cell"
  /\ LET currentMax == Phase1_currentMax
         best       == psgl_max(bestScore, currentMax)
         lastCol    == (j + 1 >= graph.numVertices)
         lastRow    == (i + 1 >= VecLen(readSet_P1[readno]))
     IN /\ matrix' = [matrix EXCEPT ![And1(i)][j] = currentMax]
        /\ bestScore' = best
        /\ bestCol' = IF best = currentMax THEN j ELSE bestCol
        /\ bestRow' = IF best = currentMax THEN i ELSE bestRow
        /\ j' = IF lastCol THEN 0 ELSE j + 1
        /\ i' = IF lastCol THEN i + 1 ELSE i
        /\ pc' = IF lastCol /\ lastRow THEN "P1_end" ELSE "P1_cell"
  /\ UNCHANGED << input, others, failed, p1vars, readno, outputBestScoreVector,
                  readSet_P1_R, readSet_P2, revLog, p2vars >>

Phase1_EndRead ==
  /\ pc = "P1_end"
  /\ bestScoreVector_P1' =
       [bestScoreVector_P1 EXCEPT ![readno] =
          [@ EXCEPT !.score = bestScore, !.refColumnEnd = bestCol, !.qryRowEnd = bestRow]]
  /\ IF readno + 1 < VecLen(readSet_P1)
       THEN readno' = readno + 1 /\ pc' = "P1_begin"
       ELSE readno' = 0 /\ pc' = "select"
  /\ UNCHANGED << input, others, failed, readSet_P1, matrix, i, j, bestScore, bestRow, bestCol,
                  outputBestScoreVector, readSet_P1_R, readSet_P2, revLog, p2vars >>

----------------------------------------------------------------------------
\* alignToDAGLocal, strand selection (lines 597-625)

\* seqUtils::reverse: the characters in opposite order
reverse(str) == [k \in 0..(VecLen(str) - 1) |-> str[VecLen(str) - 1 - k]]

\* index into the Phase 1 vectors of the record kept for read rn (lines 599, 684)
SelectedIndex(rn) ==
  IF bestScoreVector_P1[2 * rn].score > bestScoreVector_P1[2 * rn + 1].score
    THEN 2 * rn
    ELSE 2 * rn + 1

\* both branches of the source set strand to '+'
SelectedRecord(rn) ==
  [bestScoreVector_P1[SelectedIndex(rn)] EXCEPT !.strand = "+", !.qryId = rn]

SelectStrand ==
  /\ pc = "select"
  /\ outputBestScoreVector' = [rn \in 0..(VecLen(readSet) - 1) |-> SelectedRecord(rn)]
  /\ readSet_P1_R' = [rn \in 0..(VecLen(readSet) - 1) |-> reverse(readSet_P1[SelectedIndex(rn)])]
  /\ matrix' = Vec(2, Vec(graph.numVertices, 0))
  /\ readno' = 0
  /\ pc' = "P1R_begin"
  /\ UNCHANGED << input, others, failed, p1vars, i, j, bestScore, bestRow, bestCol,
                  readSet_P2, revLog, p2vars >>

----------------------------------------------------------------------------
\* Phase 1-R, reverse sweep (columns in descending order, out-neighbours)

readLength_R == VecLen(readSet_P1_R[readno])

Phase1_rev_currentMax ==
  LET matchScore == matchScoreOf(graph.vertex_label[j], readSet_P1_R[readno][i])
      start      == psgl_max(0, matchScore)
      nbrs       == NbrMax(start, graph.offsets_out[j], graph.offsets_out[j + 1],
                           graph.adjcny_out, matrix[And1(i - 1)], matrix[And1(i)], matchScore)
  IN psgl_max(nbrs, matrix[And1(i - 1)][j] - parameters.ins)

\* mutant: the row of the reversed read is compared with qryRowEnd as it is
IsForwardEndCell_rowNotMirrored ==
  /\ j = outputBestScoreVector[readno].refColumnEnd
  /\ i = outputBestScoreVector[readno].qryRowEnd

\* the cell where the optimal alignment ended during the forward sweep (line 218)
IsForwardEndCell ==
  /\ j = outputBestScoreVector[readno].refColumnEnd
  /\ readLength_R - 1 - i = outputBestScoreVector[readno].qryRowEnd

\* mutant: the end cell is raised by two
TaggedValue_plusTwo == parameters.match + 2

\* the value the end cell is overwritten with (line 224)
TaggedValue == parameters.match + 1

\* mutant: only a strictly better cell replaces the best cell
Phase1_rev_updatesBest_strict(currentMax) == currentMax > bestScore

\* the test that lets a cell replace the best cell seen so far (lines 209-212)
Phase1_rev_updatesBest(currentMax) == psgl_max(bestScore, currentMax) = currentMax

\* mutant: the row of the reversed read is recorded as it is
Phase1_rev_bestRow_unmirrored == i

\* the query row recorded for row i of the reversed read (line 214)
Phase1_rev_bestRow == readLength_R - 1 - i

Phase1_rev_BeginRead ==
  /\ pc = "P1R_begin"
  /\ matrix' = [matrix EXCEPT ![1] = Vec(graph.numVertices, 0)]
  /\ bestScore' = 0 /\ bestRow' = 0 /\ bestCol' = 0
  /\ i' = 0 /\ j' = graph.numVertices - 1
  /\ revLog' = <<>>
  /\ pc' = IF readLength_R > 0 THEN "P1R_cell" ELSE "P1R_end"
  /\ UNCHANGED << input, others, failed, p1vars, readno, outputBestScoreVector,
                  readSet_P1_R, readSet_P2, p2vars >>

Phase1_rev_Cell ==
  /\ pc = "P1R_cell"
  /\ LET currentMax == Phase1_rev_currentMax
         best       == psgl_max(bestScore, currentMax)
         lastCol    == (j - 1 < 0)
         lastRow    == (i + 1 >= readLength_R)
         assertOk   == IsForwardEndCell => currentMax = parameters.match
         stored     == IF IsForwardEndCell /\ assertOk THEN TaggedValue ELSE currentMax
     IN /\ matrix' = [matrix EXCEPT ![And1(i)][j] = stored]
        /\ revLog' = Append(revLog, [i |-> i, j |-> j, value |-> stored])
        /\ bestScore' = best
        /\ bestCol' = IF Phase1_rev_updatesBest(currentMax) THEN j ELSE bestCol
        /\ bestRow' = IF Phase1_rev_updatesBest(currentMax) THEN Phase1_rev_bestRow
                                                            ELSE bestRow
        /\ IF assertOk
             THEN /\ j' = IF lastCol THEN graph.numVertices - 1 ELSE j - 1
                  /\ i' = IF lastCol THEN i + 1 ELSE i
                  /\ pc' = IF lastCol /\ lastRow THEN "P1R_end" ELSE "P1R_cell"
                  /\ UNCHANGED failed
             ELSE /\ pc' = "abort"
                  /\ failed' = "rev_end_cell_is_match"
                  /\ UNCHANGED << i, j >>
  /\ UNCHANGED << input, others, p1vars, readno, outputBestScoreVector,
                  readSet_P1_R, readSet_P2, p2vars >>

Phase1_rev_EndRead ==
  /\ pc = "P1R_end"
  /\ IF outputBestScoreVector[readno].score = bestScore - 1
       THEN /\ outputBestScoreVector' =
                 [outputBestScoreVector EXCEPT ![readno] =
                    [@ EXCEPT !.refColumnStart = bestCol, !.qryRowStart = bestRow]]
            /\ IF readno + 1 < VecLen(readSet_P1_R)
                 THEN readno' = readno + 1 /\ pc' = "P1R_begin"
                 ELSE readno' = 0 /\ pc' = "P2_prepare"
            /\ UNCHANGED failed
       ELSE /\ pc' = "abort"
            /\ failed' = "rev_offset_by_1"
            /\ UNCHANGED << outputBestScoreVector, readno >>
  /\ UNCHANGED << input, others, p1vars, matrix, i, j, bestScore, bestRow, bestCol,
                  readSet_P1_R, readSet_P2, revLog, p2vars >>

----------------------------------------------------------------------------
\* alignToDAGLocal, lines 546-566 and 630-651: the width of the DP values, chosen from
\* the longest read and the match score

INT8_MAX == 127
INT16_MAX == 32767

\* the largest value of a signed integer of the given width, 2^(bits-1) - 1
TypeMax(bits) == 2 * (2 ^ (bits - 2) - 1) + 1

\* lines 524-538 and 595-621: the length of the longest read
maxReadLength == SetMax({0} \cup {VecLen(readSet[rn]) : rn \in DOMAIN readSet})

\* lines 549 and 633: the length rounded up to a multiple of the block height
PaddedLength(len, blockHeight) == len + blockHeight - 1 - ((len - 1) % blockHeight)

\* lines 552-566: the width Phase 1 runs with
Phase1_precision(len, match) ==
  IF len * match <= INT8_MAX THEN 8
  ELSE IF len * match <= INT16_MAX THEN 16
  ELSE 32

\* lines 637-651: the width Phase 1-R runs with
Phase1_rev_precision(len, match) ==
  IF len * match <= INT8_MAX - 1 THEN 8
  ELSE IF len * match <= INT16_MAX - 1 THEN 16
  ELSE 32

----------------------------------------------------------------------------
\* alignToDAGLocal, lines 680-692: the reads handed to Phase 2

PreparePhase2 ==
  /\ pc = "P2_prepare"
  /\ readSet_P2' = [rn \in 0..(VecLen(readSet) - 1) |-> readSet_P1[SelectedIndex(rn)]]
  /\ readno' = 0
  /\ pc' = "P2_begin"
  /\ UNCHANGED << input, others, failed, p1vars, matrix, i, j, bestScore, bestRow, bestCol,
                  outputBestScoreVector, readSet_P1_R, revLog, p2vars >>

----------------------------------------------------------------------------
\* Phase 2.1: recomputation inside the rectangle

reducedWidth ==
  outputBestScoreVector[readno].refColumnEnd - outputBestScoreVector[readno].refColumnStart + 1
j0 == outputBestScoreVector[readno].refColumnStart
reducedHeight ==
  outputBestScoreVector[readno].qryRowEnd - outputBestScoreVector[readno].qryRowStart + 1
i0 == outputBestScoreVector[readno].qryRowStart

\* mutant: the differences are stored in two bits
Int8_twoBits(x) == ((x + 2) % 4) - 2

\* conversion of an int32 to int8 (the store into completeMatrixLog)
Int8(x) == ((x + 128) % 256) - 128

Phase2_BeginRead ==
  /\ pc = "P2_begin"
  /\ IF reducedWidth >= 1 /\ reducedHeight >= 1
       THEN /\ finalRow' = Vec(reducedWidth, 0)
            /\ completeMatrixLog' = Vec(reducedHeight, Vec(reducedWidth, 0))
            /\ matrix' = Vec(2, Vec(reducedWidth, 0))
            /\ i' = 0 /\ j' = 0
            /\ pc' = "P2_cell"
            /\ UNCHANGED failed
       ELSE /\ pc' = "abort"
            /\ failed' = "p2_rectangle_size"
            /\ UNCHANGED << finalRow, completeMatrixLog, matrix, i, j >>
  /\ UNCHANGED << input, others, p1vars, readno, bestScore, bestRow, bestCol, outputBestScoreVector,
                  readSet_P1_R, readSet_P2, revLog, currentRowScores, row, col, cigar,
                  used_cols >>

\* mutant: the deletion penalty is added instead of subtracted
RECURSIVE Phase2_NbrMax_delAdded(_, _, _, _)
Phase2_NbrMax_delAdded(acc, k, kEnd, matchScore) ==
  IF k >= kEnd THEN acc
  ELSE IF graph.adjcny_in[k] >= j0
    THEN Phase2_NbrMax_delAdded(
           [ fromMatch    |-> psgl_max(acc.fromMatch,
                                matrix[And1(i - 1)][graph.adjcny_in[k] - j0] + matchScore),
             fromDeletion |-> psgl_max(acc.fromDeletion,
                                matrix[And1(i)][graph.adjcny_in[k] - j0] + parameters.del) ],
           k + 1, kEnd, matchScore)
    ELSE Phase2_NbrMax_delAdded(acc, k + 1, kEnd, matchScore)

\* the loop over the in-neighbours of column j + j0 that lie inside the band
RECURSIVE Phase2_NbrMax(_, _, _, _)
Phase2_NbrMax(acc, k, kEnd, matchScore) ==
  IF k >= kEnd THEN acc
  ELSE IF graph.adjcny_in[k] >= j0
    THEN Phase2_NbrMax(
           [ fromMatch    |-> psgl_max(acc.fromMatch,
                                matrix[And1(i - 1)][graph.adjcny_in[k] - j0] + matchScore),
             fromDeletion |-> psgl_max(acc.fromDeletion,
                                matrix[And1(i)][graph.adjcny_in[k] - j0] - parameters.del) ],
           k + 1, kEnd, matchScore)
    ELSE Phase2_NbrMax(acc, k + 1, kEnd, matchScore)

\* mutant: the label is read at column j instead of j + j0
Phase2_cellScore_unshiftedLabel ==
  LET fromInsertion == matrix[And1(i - 1)][j] - parameters.ins
      matchScore    == matchScoreOf(graph.vertex_label[j], readSet_P2[readno][i + i0])
      nbrs          == Phase2_NbrMax([fromMatch |-> matchScore, fromDeletion |-> -1],
                                     graph.offsets_in[j + j0], graph.offsets_in[j + j0 + 1],
                                     matchScore)
  IN psgl_max(psgl_max(fromInsertion, nbrs.fromMatch), psgl_max(nbrs.fromDeletion, 0))

\* the score of cell (i, j) of the rectangle (lines 320-344)
Phase2_cellScore ==
  LET fromInsertion == matrix[And1(i - 1)][j] - parameters.ins
      matchScore    == matchScoreOf(graph.vertex_label[j + j0], readSet_P2[readno][i + i0])
      nbrs          == Phase2_NbrMax([fromMatch |-> matchScore, fromDeletion |-> -1],
                                     graph.offsets_in[j + j0], graph.offsets_in[j + j0 + 1],
                                     matchScore)
  IN psgl_max(psgl_max(fromInsertion, nbrs.fromMatch), psgl_max(nbrs.fromDeletion, 0))

Phase2_Cell ==
  /\ pc = "P2_cell"
  /\ LET score   == Phase2_cellScore
         newRow  == [matrix[And1(i)] EXCEPT ![j] = score]
         lastCol == (j + 1 >= reducedWidth)
         lastRow == (i = reducedHeight - 1)
     IN /\ matrix' = [matrix EXCEPT ![And1(i)] = newRow]
        /\ completeMatrixLog' =
             [completeMatrixLog EXCEPT ![i][j] = Int8(score - matrix[And1(i - 1)][j])]
        /\ finalRow' = IF lastCol /\ lastRow THEN newRow ELSE finalRow
        /\ j' = IF lastCol THEN 0 ELSE j + 1
        /\ i' = IF lastCol THEN i + 1 ELSE i
        /\ pc' = IF lastCol /\ lastRow THEN "P2_check" ELSE "P2_cell"
  /\ UNCHANGED << input, others, failed, p1vars, readno, bestScore, bestRow, bestCol,
                  outputBestScoreVector, readSet_P1_R, readSet_P2, revLog,
                  currentRowScores, row, col, cigar, used_cols >>

\* *std::max_element
RECURSIVE max_element(_, _)
max_element(v, k) ==
  IF k = VecLen(v) - 1 THEN v[k] ELSE psgl_max(v[k], max_element(v, k + 1))

bestScoreReComputed == max_element(finalRow, 0)

\* lines 355-379: the two assertions on the recomputed row, then the traceback starts
Phase2_Check ==
  /\ pc = "P2_check"
  /\ IF bestScoreReComputed # outputBestScoreVector[readno].score
       THEN /\ pc' = "abort"
            /\ failed' = "p2_recomputed_score"
            /\ UNCHANGED << currentRowScores, row, col, cigar, used_cols >>
       ELSE IF bestScoreReComputed # finalRow[outputBestScoreVector[readno].refColumnEnd - j0]
         THEN /\ pc' = "abort"
              /\ failed' = "p2_recomputed_location"
              /\ UNCHANGED << currentRowScores, row, col, cigar, used_cols >>
         ELSE /\ currentRowScores' = finalRow
              /\ col' = reducedWidth - 1
              /\ row' = reducedHeight - 1
              /\ cigar' = <<>>
              /\ used_cols' = <<>>
              /\ pc' = "P2_trace"
              /\ UNCHANGED failed
  /\ UNCHANGED << input, others, p1vars, matrix, readno, i, j, bestScore, bestRow, bestCol,
                  outputBestScoreVector, readSet_P1_R, readSet_P2, revLog,
                  completeMatrixLog, finalRow >>

----------------------------------------------------------------------------
\* Phase 2.2: traceback

\* mutant: the vertical differences are added to the current row
aboveRowScores_added ==
  [k \in 0..(reducedWidth - 1) |-> currentRowScores[k] + completeMatrixLog[row][k]]

\* the row above `row', rebuilt from the vertical differences (lines 388-389)
aboveRowScores ==
  [k \in 0..(reducedWidth - 1) |-> currentRowScores[k] - completeMatrixLog[row][k]]

\* mutant: a better deletion candidate is stored without its column (line 421 left out)
RECURSIVE Phase2_TraceNbrs_posNotAssigned(_, _, _, _)
Phase2_TraceNbrs_posNotAssigned(acc, k, kEnd, matchScore) ==
  IF k >= kEnd THEN acc
  ELSE IF graph.adjcny_in[k] >= j0
    THEN LET fromCol  == graph.adjcny_in[k] - j0
             newMatch == acc.fromMatch < aboveRowScores[fromCol] + matchScore
             newDel   == acc.fromDeletion < currentRowScores[fromCol] - parameters.del
         IN Phase2_TraceNbrs_posNotAssigned(
              [ fromMatch          |-> IF newMatch THEN aboveRowScores[fromCol] + matchScore
                                                   ELSE acc.fromMatch,
                fromMatchPos       |-> IF newMatch THEN fromCol ELSE acc.fromMatchPos,
                fromDeletion       |-> IF newDel THEN currentRowScores[fromCol] - parameters.del
                                                 ELSE acc.fromDeletion,
                fromDeletionPos    |-> acc.fromDeletionPos,
                fromDeletionPosSet |-> acc.fromDeletionPosSet ],
              k + 1, kEnd, matchScore)
    ELSE Phase2_TraceNbrs_posNotAssigned(acc, k + 1, kEnd, matchScore)

\* the loop over the in-neighbours of column col + j0 (lines 407-425); fromDeletionPos
\* has no initial value in the source: fromDeletionPosSet tells whether it was assigned
RECURSIVE Phase2_TraceNbrs(_, _, _, _)
Phase2_TraceNbrs(acc, k, kEnd, matchScore) ==
  IF k >= kEnd THEN acc
  ELSE IF graph.adjcny_in[k] >= j0
    THEN LET fromCol  == graph.adjcny_in[k] - j0
             newMatch == acc.fromMatch < aboveRowScores[fromCol] + matchScore
             newDel   == acc.fromDeletion < currentRowScores[fromCol] - parameters.del
         IN Phase2_TraceNbrs(
              [ fromMatch          |-> IF newMatch THEN aboveRowScores[fromCol] + matchScore
                                                   ELSE acc.fromMatch,
                fromMatchPos       |-> IF newMatch THEN fromCol ELSE acc.fromMatchPos,
                fromDeletion       |-> IF newDel THEN currentRowScores[fromCol] - parameters.del
                                                 ELSE acc.fromDeletion,
                fromDeletionPos    |-> IF newDel THEN fromCol ELSE acc.fromDeletionPos,
                fromDeletionPosSet |-> newDel \/ acc.fromDeletionPosSet ],
              k + 1, kEnd, matchScore)
    ELSE Phase2_TraceNbrs(acc, k + 1, kEnd, matchScore)

\* mutant: fromMatchPos keeps its initial value col
Phase2_candidates_matchPosNotUpdated ==
  LET matchScore == matchScoreOf(graph.vertex_label[col + j0], readSet_P2[readno][row + i0])
      nbrs == Phase2_TraceNbrs(
                [ fromMatch |-> matchScore, fromMatchPos |-> col, fromDeletion |-> -1,
                  fromDeletionPos |-> 0, fromDeletionPosSet |-> FALSE ],
                graph.offsets_in[col + j0], graph.offsets_in[col + j0 + 1], matchScore)
  IN [ matchScore         |-> matchScore,
       fromInsertion      |-> aboveRowScores[col] - parameters.ins,
       fromMatch          |-> nbrs.fromMatch,
       fromMatchPos       |-> col,
       fromDeletion       |-> nbrs.fromDeletion,
       fromDeletionPos    |-> nbrs.fromDeletionPos,
       fromDeletionPosSet |-> nbrs.fromDeletionPosSet ]

\* the candidates of the cell (row, col) (lines 392-425)
Phase2_candidates ==
  LET matchScore == matchScoreOf(graph.vertex_label[col + j0], readSet_P2[readno][row + i0])
      nbrs == Phase2_TraceNbrs(
                [ fromMatch |-> matchScore, fromMatchPos |-> col, fromDeletion |-> -1,
                  fromDeletionPos |-> 0, fromDeletionPosSet |-> FALSE ],
                graph.offsets_in[col + j0], graph.offsets_in[col + j0 + 1], matchScore)
  IN [ matchScore         |-> matchScore,
       fromInsertion      |-> aboveRowScores[col] - parameters.ins,
       fromMatch          |-> nbrs.fromMatch,
       fromMatchPos       |-> nbrs.fromMatchPos,
       fromDeletion       |-> nbrs.fromDeletion,
       fromDeletionPos    |-> nbrs.fromDeletionPos,
       fromDeletionPosSet |-> nbrs.fromDeletionPosSet ]

\* mutant: the deletion is tested before the match
Phase2_edit_deletionFirst(c) ==
  IF currentRowScores[col] = c.fromDeletion THEN "deletion"
  ELSE IF currentRowScores[col] = c.fromMatch THEN "match"
  ELSE IF currentRowScores[col] = c.fromInsertion THEN "insertion"
  ELSE "none"

\* which edit the traceback takes at a cell of positive score (lines 429-461)
Phase2_edit(c) ==
  IF currentRowScores[col] = c.fromMatch THEN "match"
  ELSE IF currentRowScores[col] = c.fromDeletion THEN "deletion"
  ELSE IF currentRowScores[col] = c.fromInsertion THEN "insertion"
  ELSE "none"

\* mutant: the insertion branch stays in its row (the row-- of line 460 left out)
Phase2_TraceStep_insertionKeepsRow ==
  /\ pc = "P2_trace"
  /\ IF ~(col >= 0 /\ row >= 0)
       THEN /\ pc' = "P2_finish"
            /\ UNCHANGED << failed, currentRowScores, row, col, cigar, used_cols >>
     ELSE IF col >= reducedWidth
       THEN /\ pc' = "abort"
            /\ failed' = "p2_col_out_of_range"
            /\ UNCHANGED << currentRowScores, row, col, cigar, used_cols >>
     ELSE IF currentRowScores[col] <= 0
       THEN /\ used_cols' = Append(used_cols, col + j0)
            /\ pc' = "P2_finish"
            /\ UNCHANGED << failed, currentRowScores, row, col, cigar >>
     ELSE LET c == Phase2_candidates
              edit == Phase2_edit(c)
          IN /\ used_cols' = Append(used_cols, col + j0)
             /\ CASE edit = "match" ->
                       /\ cigar' = Append(cigar, IF c.matchScore = parameters.match
                                                   THEN "=" ELSE "X")
                       /\ IF c.fromMatchPos = col
                            THEN /\ pc' = "P2_finish"
                                 /\ UNCHANGED << currentRowScores, row, col >>
                            ELSE /\ col' = c.fromMatchPos
                                 /\ row' = row - 1
                                 /\ currentRowScores' = aboveRowScores
                                 /\ pc' = "P2_trace"
                       /\ UNCHANGED failed
                  [] edit = "deletion" ->
                       /\ cigar' = Append(cigar, "D")
                       /\ \E pos \in (IF c.fromDeletionPosSet THEN {c.fromDeletionPos}
                                                             ELSE (-1)..reducedWidth) :
                            col' = pos
                       /\ pc' = "P2_trace"
                       /\ UNCHANGED << failed, currentRowScores, row >>
                  [] edit = "insertion" ->
                       /\ cigar' = Append(cigar, "I")
                       /\ row' = row
                       /\ currentRowScores' = aboveRowScores
                       /\ pc' = "P2_trace"
                       /\ UNCHANGED << failed, col >>
                  [] edit = "none" ->
                       /\ pc' = "abort"
                       /\ failed' = "p2_trace_insertion"
                       /\ UNCHANGED << currentRowScores, row, col, cigar >>
  /\ UNCHANGED << input, others, p1vars, matrix, readno, i, j, bestScore, bestRow, bestCol,
                  outputBestScoreVector, readSet_P1_R, readSet_P2, revLog,
                  completeMatrixLog, finalRow >>

\* one iteration of the while loop (lines 381-463)
Phase2_TraceStep ==
  /\ pc = "P2_trace"
  /\ IF ~(col >= 0 /\ row >= 0)
       THEN /\ pc' = "P2_finish"
            /\ UNCHANGED << failed, currentRowScores, row, col, cigar, used_cols >>
     ELSE IF col >= reducedWidth
       THEN /\ pc' = "abort"
            /\ failed' = "p2_col_out_of_range"
            /\ UNCHANGED << currentRowScores, row, col, cigar, used_cols >>
     ELSE IF currentRowScores[col] <= 0
       THEN /\ used_cols' = Append(used_cols, col + j0)
            /\ pc' = "P2_finish"
            /\ UNCHANGED << failed, currentRowScores, row, col, cigar >>
     ELSE LET c == Phase2_candidates
              edit == Phase2_edit(c)
          IN /\ used_cols' = Append(used_cols, col + j0)
             /\ CASE edit = "match" ->
                       /\ cigar' = Append(cigar, IF c.matchScore = parameters.match
                                                   THEN "=" ELSE "X")
                       /\ IF c.fromMatchPos = col
                            THEN /\ pc' = "P2_finish"
                                 /\ UNCHANGED << currentRowScores, row, col >>
                            ELSE /\ col' = c.fromMatchPos
                                 /\ row' = row - 1
                                 /\ currentRowScores' = aboveRowScores
                                 /\ pc' = "P2_trace"
                       /\ UNCHANGED failed
                  [] edit = "deletion" ->
                       /\ cigar' = Append(cigar, "D")
                       /\ \E pos \in (IF c.fromDeletionPosSet THEN {c.fromDeletionPos}
                                                             ELSE (-1)..reducedWidth) :
                            col' = pos
                       /\ pc' = "P2_trace"
                       /\ UNCHANGED << failed, currentRowScores, row >>
                  [] edit = "insertion" ->
                       /\ cigar' = Append(cigar, "I")
                       /\ row' = row - 1
                       /\ currentRowScores' = aboveRowScores
                       /\ pc' = "P2_trace"
                       /\ UNCHANGED << failed, col >>
                  [] edit = "none" ->
                       /\ pc' = "abort"
                       /\ failed' = "p2_trace_insertion"
                       /\ UNCHANGED << currentRowScores, row, col, cigar >>
  /\ UNCHANGED << input, others, p1vars, matrix, readno, i, j, bestScore, bestRow, bestCol,
                  outputBestScoreVector, readSet_P1_R, readSet_P2, revLog,
                  completeMatrixLog, finalRow >>

\* mutant: the sequence is left in the order the traceback produced it
Reverse_notReversed(s) == s

\* std::reverse on a sequence
RECURSIVE Reverse(_)
Reverse(s) == IF s = <<>> THEN <<>> ELSE Append(Reverse(Tail(s)), Head(s))

\* seqUtils::cigarCompact: run-length groups <<count, op>>
RECURSIVE cigarCompact(_)
cigarCompact(s) ==
  IF s = <<>> THEN <<>>
  ELSE LET rest == cigarCompact(Tail(s))
       IN IF rest # <<>> /\ rest[1][2] = Head(s)
            THEN << <<rest[1][1] + 1, Head(s)>> >> \o Tail(rest)
            ELSE << <<1, Head(s)>> >> \o rest

\* the score of one operation of a CIGAR
opScore(op) ==
  CASE op = "=" -> parameters.match
    [] op = "X" -> (-1) * parameters.mismatch
    [] op = "I" -> (-1) * parameters.ins
    [] op = "D" -> (-1) * parameters.del

\* seqUtils::cigarScore on a compacted CIGAR
RECURSIVE cigarScore(_)
cigarScore(c) ==
  IF c = <<>> THEN 0 ELSE c[1][1] * opScore(c[1][2]) + cigarScore(Tail(c))

\* mutant: the CIGAR and the columns are appended to what the record already holds
Phase2_Finish_appends ==
  /\ pc = "P2_finish"
  /\ LET compacted == cigarCompact(Reverse(cigar))
     IN IF cigarScore(compacted) = outputBestScoreVector[readno].score
          THEN /\ outputBestScoreVector' =
                    [outputBestScoreVector EXCEPT ![readno] =
                       [@ EXCEPT !.cigar = @ \o compacted,
                                 !.refColumns = @ \o Reverse(used_cols)]]
               /\ IF readno + 1 < VecLen(readSet_P2)
                    THEN readno' = readno + 1 /\ pc' = "P2_begin"
                    ELSE readno' = readno /\ pc' = "done"
               /\ UNCHANGED failed
          ELSE /\ pc' = "abort"
               /\ failed' = "p2_cigar_score"
               /\ UNCHANGED << outputBestScoreVector, readno >>
  /\ UNCHANGED << input, others, p1vars, matrix, i, j, bestScore, bestRow, bestCol,
                  readSet_P1_R, readSet_P2, revLog, p2vars >>

\* lines 465-476: compaction, the assertion on the CIGAR's score, the stores
Phase2_Finish ==
  /\ pc = "P2_finish"
  /\ LET compacted == cigarCompact(Reverse(cigar))
     IN IF cigarScore(compacted) = outputBestScoreVector[readno].score
          THEN /\ outputBestScoreVector' =
                    [outputBestScoreVector EXCEPT ![readno] =
                       [@ EXCEPT !.cigar = compacted, !.refColumns = Reverse(used_cols)]]
               /\ IF readno + 1 < VecLen(readSet_P2)
                    THEN readno' = readno + 1 /\ pc' = "P2_begin"
                    ELSE readno' = readno /\ pc' = "done"
               /\ UNCHANGED failed
          ELSE /\ pc' = "abort"
               /\ failed' = "p2_cigar_score"
               /\ UNCHANGED << outputBestScoreVector, readno >>
  /\ UNCHANGED << input, others, p1vars, matrix, i, j, bestScore, bestRow, bestCol,
                  readSet_P1_R, readSet_P2, revLog, p2vars >>

----------------------------------------------------------------------------
Next ==
  \/ PreparePhase1
  \/ Phase1_BeginRead
  \/ Phase1_Cell
  \/ Phase1_EndRead
  \/ SelectStrand
  \/ Phase1_rev_BeginRead
  \/ Phase1_rev_Cell
  \/ Phase1_rev_EndRead
  \/ PreparePhase2
  \/ Phase2_BeginRead
  \/ Phase2_Cell
  \/ Phase2_Check
  \/ Phase2_TraceStep
  \/ Phase2_Finish

Spec == Init /\ [][Next]_vars

----------------------------------------------------------------------------
\* alignToDAGLocal_Phase2 called a second time with the same arguments: the records
\* hold the CIGAR and the columns the first call stored

Phase2_SecondCall ==
  /\ pc = "done"
  /\ p2run = 1
  /\ p2run' = 2
  /\ firstRunOutput' = outputBestScoreVector
  /\ readno' = 0
  /\ pc' = "P2_begin"
  /\ UNCHANGED << input, parvars, sortvars, failed, p1vars, matrix, i, j, bestScore,
                  bestRow, bestCol, outputBestScoreVector, readSet_P1_R, readSet_P2,
                  revLog, p2vars >>

RerunNext == Next \/ Phase2_SecondCall

RerunSpec == Init /\ [][RerunNext]_vars

----------------------------------------------------------------------------
\* The parallel regions (#pragma omp parallel / #pragma omp for schedule(dynamic)) of
\* the three phases, run by a team of NumWorkers threads.  The variables matrix, readno,
\* i, j, bestScore, ... hold the private state of the thread tid that is running;
\* `parked' holds the private states of the other threads, and Switch hands the
\* processor to another thread.  The graph, the read sets, the result vectors and the
\* iteration counter of the loop are shared.  Each input is first run by a single
\* worker (mode = "seq"), then by the team (mode = "par").

Workers == 0..(NumWorkers - 1)

\* what a thread keeps for itself: everything declared inside the parallel region
Private ==
  [ pc |-> pc, matrix |-> matrix, readno |-> readno, i |-> i, j |-> j,
    bestScore |-> bestScore, bestRow |-> bestRow, bestCol |-> bestCol, revLog |-> revLog,
    completeMatrixLog |-> completeMatrixLog, finalRow |-> finalRow,
    currentRowScores |-> currentRowScores, row |-> row, col |-> col,
    cigar |-> cigar, used_cols |-> used_cols ]

\* a thread entering a parallel region: its ring is allocated and zeroed (line 61)
FreshPrivate ==
  [ pc |-> "grab", matrix |-> Vec(2, Vec(graph.numVertices, 0)), readno |-> 0,
    i |-> 0, j |-> 0, bestScore |-> 0, bestRow |-> 0, bestCol |-> 0, revLog |-> <<>>,
    completeMatrixLog |-> <<>>, finalRow |-> <<>>, currentRowScores |-> <<>>,
    row |-> 0, col |-> 0, cigar |-> <<>>, used_cols |-> <<>> ]

\* the entry of `parked' of the thread that is running
Running == [ pc |-> "running" ]

\* mutant: the ring is declared outside the parallel region, one for the whole team
RestoredMatrix_shared(w) == matrix

\* the ring thread w finds when it runs again: its own (declared inside the region)
RestoredMatrix(w) == parked[w].matrix

\* the scheduler takes the processor from thread tid and gives it to thread w
Switch ==
  /\ mode = "par"
  /\ pc \notin {"start", "abort", "done"}
  /\ \E w \in Workers \ {tid} :
       /\ parked[w].pc # "wait"
       /\ tid' = w
       /\ parked' = [parked EXCEPT ![tid] = Private, ![w] = Running]
       /\ pc' = parked[w].pc
       /\ matrix' = RestoredMatrix(w)
       /\ readno' = parked[w].readno
       /\ i' = parked[w].i /\ j' = parked[w].j
       /\ bestScore' = parked[w].bestScore
       /\ bestRow' = parked[w].bestRow /\ bestCol' = parked[w].bestCol
       /\ revLog' = parked[w].revLog
       /\ completeMatrixLog' = parked[w].completeMatrixLog
       /\ finalRow' = parked[w].finalRow
       /\ currentRowScores' = parked[w].currentRowScores
       /\ row' = parked[w].row /\ col' = parked[w].col
       /\ cigar' = parked[w].cigar
       /\ used_cols' = parked[w].used_cols
  /\ UNCHANGED << input, rerunvars, sortvars, failed, p1vars, outputBestScoreVector,
                  readSet_P1_R, readSet_P2, mode, phase, nextIter, writers, serialOutput >>

\* the team enters the parallel region of phase ph: every thread starts with fresh
\* private variables, no iteration is handed out yet
Fork(ph) ==
  /\ phase' = ph
  /\ nextIter' = 0
  /\ tid' = 0
  /\ parked' = [w \in Workers |-> IF w = 0 THEN Running ELSE FreshPrivate]
  /\ pc' = "grab"
  /\ matrix' = Vec(2, Vec(graph.numVertices, 0))
  /\ readno' = 0 /\ i' = 0 /\ j' = 0
  /\ bestScore' = 0 /\ bestRow' = 0 /\ bestCol' = 0
  /\ revLog' = <<>>
  /\ completeMatrixLog' = <<>> /\ finalRow' = <<>> /\ currentRowScores' = <<>>
  /\ row' = 0 /\ col' = 0 /\ cigar' = <<>> /\ used_cols' = <<>>

\* mutant: the master leaves the region without waiting for the team
BarrierReached_noWait == TRUE

\* the barrier that ends a parallel region: every other thread waits there
BarrierReached == \A w \in Workers \ {tid} : parked[w].pc = "wait"

\* the single-worker run has ended; the same input is given to the team
Par_Restart ==
  /\ mode = "seq"
  /\ pc \in {"done", "abort"}
  /\ serialOutput' = [ completed |-> (pc = "done"),
                       records |-> IF pc = "done" THEN outputBestScoreVector ELSE <<>> ]
  /\ mode' = "par"
  /\ pc' = "start"
  /\ failed' = "none"
  /\ readSet_P1' = <<>> /\ bestScoreVector_P1' = <<>>
  /\ outputBestScoreVector' = <<>> /\ readSet_P1_R' = <<>> /\ readSet_P2' = <<>>
  /\ matrix' = Vec(2, Vec(graph.numVertices, 0))
  /\ readno' = 0 /\ i' = 0 /\ j' = 0
  /\ bestScore' = 0 /\ bestRow' = 0 /\ bestCol' = 0
  /\ revLog' = <<>>
  /\ completeMatrixLog' = <<>> /\ finalRow' = <<>> /\ currentRowScores' = <<>>
  /\ row' = 0 /\ col' = 0 /\ cigar' = <<>> /\ used_cols' = <<>>
  /\ UNCHANGED << input, rerunvars, sortvars, phase, tid, parked, nextIter, writers >>

\* alignToDAGLocal, lines 509-541, then the parallel region of Phase 1 opens
Par_PreparePhase1 ==
  /\ mode = "par"
  /\ pc = "start"
  /\ readSet_P1' = BuildReadSet_P1(0, <<>>)
  /\ bestScoreVector_P1' = Vec(2 * VecLen(readSet), EmptyInfo)
  /\ writers' = [ph \in {"P1", "P1R", "P2"} |->
                   Vec(IF ph = "P1" THEN 2 * VecLen(readSet) ELSE VecLen(readSet), <<>>)]
  /\ Fork("P1")
  /\ UNCHANGED << input, rerunvars, sortvars, failed, outputBestScoreVector,
                  readSet_P1_R, readSet_P2, mode, serialOutput >>

\* the number of iterations of the loop of the region
Iterations ==
  CASE phase = "P1"  -> VecLen(readSet_P1)
    [] phase = "P1R" -> VecLen(readSet_P1_R)
    [] phase = "P2"  -> VecLen(readSet_P2)

\* schedule(dynamic): a free thread takes the next iteration, or waits at the barrier
Par_Grab ==
  /\ mode = "par"
  /\ pc = "grab"
  /\ IF nextIter < Iterations
       THEN /\ readno' = nextIter
            /\ nextIter' = nextIter + 1
            /\ pc' = CASE phase = "P1"  -> "P1_begin"
                       [] phase = "P1R" -> "P1R_begin"
                       [] phase = "P2"  -> "P2_begin"
       ELSE /\ pc' = "wait"
            /\ UNCHANGED << readno, nextIter >>
  /\ UNCHANGED << input, rerunvars, sortvars, failed, p1vars, matrix, i, j, bestScore,
                  bestRow, bestCol, outputBestScoreVector, readSet_P1_R, readSet_P2,
                  revLog, p2vars, mode, phase, tid, parked, writers, serialOutput >>

\* the body of one iteration that touches no shared variable but `failed'
Par_Compute ==
  /\ mode = "par"
  /\ \/ Phase1_BeginRead
     \/ Phase1_Cell
     \/ Phase1_rev_BeginRead
     \/ Phase1_rev_Cell
     \/ Phase2_BeginRead
     \/ Phase2_Cell
     \/ Phase2_Check
     \/ Phase2_TraceStep

\* lines 116-118: the stores of Phase 1 into the slot of the iteration
Par_Phase1_EndRead ==
  /\ mode = "par"
  /\ pc = "P1_end"
  /\ bestScoreVector_P1' =
       [bestScoreVector_P1 EXCEPT ![readno] =
          [@ EXCEPT !.score = bestScore, !.refColumnEnd = bestCol, !.qryRowEnd = bestRow]]
  /\ writers' = [writers EXCEPT !["P1"][readno] = Append(@, tid)]
  /\ pc' = "grab"
  /\ UNCHANGED << input, rerunvars, sortvars, failed, readSet_P1, matrix, readno, i, j,
                  bestScore, bestRow, bestCol, outputBestScoreVector, readSet_P1_R,
                  readSet_P2, revLog, p2vars, mode, phase, tid, parked, nextIter,
                  serialOutput >>

\* lines 229-231: the assertion and the stores of Phase 1-R
Par_Phase1_rev_EndRead ==
  /\ mode = "par"
  /\ pc = "P1R_end"
  /\ IF outputBestScoreVector[readno].score = bestScore - 1
       THEN /\ outputBestScoreVector' =
                 [outputBestScoreVector EXCEPT ![readno] =
                    [@ EXCEPT !.refColumnStart = bestCol, !.qryRowStart = bestRow]]
            /\ writers' = [writers EXCEPT !["P1R"][readno] = Append(@, tid)]
            /\ pc' = "grab"
            /\ UNCHANGED failed
       ELSE /\ pc' = "abort"
            /\ failed' = "rev_offset_by_1"
            /\ UNCHANGED << outputBestScoreVector, writers >>
  /\ UNCHANGED << input, rerunvars, sortvars, p1vars, matrix, readno, i, j, bestScore,
                  bestRow, bestCol, readSet_P1_R, readSet_P2, revLog, p2vars, mode, phase,
                  tid, parked, nextIter, serialOutput >>

\* lines 465-476: the assertion and the stores of Phase 2
Par_Phase2_Finish ==
  /\ mode = "par"
  /\ pc = "P2_finish"
  /\ LET compacted == cigarCompact(Reverse(cigar))
     IN IF cigarScore(compacted) = outputBestScoreVector[readno].score
          THEN /\ outputBestScoreVector' =
                    [outputBestScoreVector EXCEPT ![readno] =
                       [@ EXCEPT !.cigar = compacted, !.refColumns = Reverse(used_cols)]]
               /\ writers' = [writers EXCEPT !["P2"][readno] = Append(@, tid)]
               /\ pc' = "grab"
               /\ UNCHANGED failed
          ELSE /\ pc' = "abort"
               /\ failed' = "p2_cigar_score"
               /\ UNCHANGED << outputBestScoreVector, writers >>
  /\ UNCHANGED << input, rerunvars, sortvars, p1vars, matrix, readno, i, j, bestScore,
                  bestRow, bestCol, readSet_P1_R, readSet_P2, revLog, p2vars, mode, phase,
                  tid, parked, nextIter, serialOutput >>

\* the region of Phase 1 is over: strand selection (lines 597-625) by the master, then
\* the region of Phase 1-R opens
Par_SelectStrand ==
  /\ mode = "par"
  /\ pc = "wait" /\ phase = "P1"
  /\ BarrierReached
  /\ outputBestScoreVector' = [rn \in 0..(VecLen(readSet) - 1) |-> SelectedRecord(rn)]
  /\ readSet_P1_R' = [rn \in 0..(VecLen(readSet) - 1) |-> reverse(readSet_P1[SelectedIndex(rn)])]
  /\ Fork("P1R")
  /\ UNCHANGED << input, rerunvars, sortvars, failed, p1vars, readSet_P2, mode, writers,
                  serialOutput >>

\* the region of Phase 1-R is over: lines 680-692 by the master, then the region of
\* Phase 2 opens
Par_PreparePhase2 ==
  /\ mode = "par"
  /\ pc = "wait" /\ phase = "P1R"
  /\ BarrierReached
  /\ readSet_P2' = [rn \in 0..(VecLen(readSet) - 1) |-> readSet_P1[SelectedIndex(rn)]]
  /\ Fork("P2")
  /\ UNCHANGED << input, rerunvars, sortvars, failed, p1vars, outputBestScoreVector,
                  readSet_P1_R, mode, writers, serialOutput >>

\* the region of Phase 2 is over: alignToDAGLocal returns
Par_Return ==
  /\ mode = "par"
  /\ pc = "wait" /\ phase = "P2"
  /\ BarrierReached
  /\ pc' = "done"
  /\ UNCHANGED << input, rerunvars, sortvars, failed, p1vars, matrix, readno, i, j,
                  bestScore, bestRow, bestCol, outputBestScoreVector, readSet_P1_R,
                  readSet_P2, revLog, p2vars, mode, phase, tid, parked, nextIter, writers,
                  serialOutput >>

SerialStep == mode = "seq" /\ Next

ParNext ==
  \/ SerialStep
  \/ Par_Restart
  \/ Par_PreparePhase1
  \/ Par_Grab
  \/ Par_Compute
  \/ Par_Phase1_EndRead
  \/ Par_SelectStrand
  \/ Par_Phase1_rev_EndRead
  \/ Par_PreparePhase2
  \/ Par_Phase2_Finish
  \/ Par_Return
  \/ Switch

\* the inputs of the team: two reads, so that each input read and each of the two
\* Phase 1 entries of a read can go to a different thread
ParReads == UNION {[1..l -> Alphabet] : l \in 1..ParMaxLen}

ParInit ==
  /\ \E n \in 1..ParMaxV :
       \E diEdges \in SUBSET ForwardPairs(n) :
         \E labels \in [0..(n - 1) -> Alphabet] :
           /\ graph = initEdges(n, diEdges, labels)
           /\ matrix = Vec(2, Vec(n, 0))
  /\ \E q0 \in ParReads : \E q1 \in ParReads :
       readSet = PushBack(Vec(1, Str(q0)), Str(q1))
  /\ parameters = [match |-> 1, mismatch |-> 1, ins |-> 1, del |-> 1]
  /\ LocalsInit
  /\ RerunInit /\ SeqInit /\ SortIdle

ParSpec == ParInit /\ [][ParNext]_vars

----------------------------------------------------------------------------
\* The end-to-end scenarios on the linear chain AC -> GT -> GCCTG -> CT, whose char
\* graph is the path of the 11 characters ACGTGCCTGCT

ChainChars == << "A", "C", "G", "T", "G", "C", "C", "T", "G", "C", "T" >>

ChainGraph ==
  initEdges(Len(ChainChars), {<<k, k + 1>> : k \in 0..(Len(ChainChars) - 2)}, Str(ChainChars))

\* the chain's characters with the G of position 4 dropped
DeletionQuery == << "A", "C", "G", "T", "C", "C", "T", "G", "C", "T" >>

\* the chain's characters between two flanks that match nothing around them
TrimmingQuery ==
  << "T", "T", "A", "C", "G", "T", "G", "C", "C", "T", "G", "C", "T", "A", "A" >>

ScenarioInit ==
  /\ graph = ChainGraph
  /\ matrix = Vec(2, Vec(Len(ChainChars), 0))
  /\ \E q \in {DeletionQuery, TrimmingQuery} : readSet = Vec(1, Str(q))
  /\ parameters = [match |-> 1, mismatch |-> 1, ins |-> 1, del |-> 1]
  /\ LocalsInit
  /\ RerunInit /\ SeqInit /\ SortIdle

ScenarioSpec == ScenarioInit /\ [][Next]_vars

----------------------------------------------------------------------------
\* Properties

InNeighbours(v) == {graph.adjcny_in[k] : k \in graph.offsets_in[v]..(graph.offsets_in[v + 1] - 1)}

HasEdge(u, v) == u \in InNeighbours(v)

Info(rn) == outputBestScoreVector[rn]

\* the scoring scheme of the end-to-end scenarios
UnitScheme ==
  /\ parameters.match = 1 /\ parameters.mismatch = 1
  /\ parameters.ins = 1 /\ parameters.del = 1

\* H(a, b) of the recurrence for the read q, with H(-1, .) = 0
RECURSIVE H(_, _, _)
H(q, a, b) ==
  IF a < 0 THEN 0
  ELSE LET ms == matchScoreOf(graph.vertex_label[b], q[a])
       IN SetMax({0, ms, H(q, a - 1, b) - parameters.ins}
                 \cup {H(q, a - 1, u) + ms : u \in InNeighbours(b)}
                 \cup {H(q, a, u) - parameters.del : u \in InNeighbours(b)})

\* the maximum over all cells; 0, the value of bestScore before the first cell, when
\* the read has no cell
MaxH(q) ==
  SetMax({0} \cup {H(q, a, b) : a \in 0..(VecLen(q) - 1), b \in 0..(graph.numVertices - 1)})

\* C1: the score Phase 1 reports for a read, computed on the two-row ring, is the
\* maximum over all cells (i, j) of H(i, j) given by the recurrence.
C1_ScoreIsMaxOfRecurrence ==
  pc = "select" =>
    \A r \in DOMAIN bestScoreVector_P1 : bestScoreVector_P1[r].score = MaxH(readSet_P1[r])

\* a three-row sweep (ring rows reused) over a graph with a merge vertex, ending in
\* an alignment of three matches
C1_Witness ==
  /\ pc = "select"
  /\ VecLen(readSet[0]) = 3
  /\ graph.numEdges >= 2
  /\ \E v \in 0..(graph.numVertices - 1) : Cardinality(InNeighbours(v)) = 2
  /\ parameters.match = 1
  /\ bestScoreVector_P1[0].score = 3

\* C2: after the reverse sweep of a non-empty read the best reverse score is the
\* forward score plus 1 (stated for match = mismatch = ins = del = 1, one of the
\* schemes the claim covers).
C2_ReverseBestIsForwardPlusOne ==
  (pc = "P1R_end" /\ UnitScheme /\ readLength_R >= 1) => bestScore = Info(readno).score + 1

\* C3: the value computed by the reverse sweep for the mirror of the forward end
\* cell, before the tag is applied, equals match (stated for match = mismatch =
\* ins = del = 1, one of the schemes the claim covers).
C3_EndCellValueIsMatch ==
  (pc = "P1R_cell" /\ IsForwardEndCell /\ UnitScheme) =>
    Phase1_rev_currentMax = parameters.match

\* the stored values of a completed reverse sweep
RevMax == SetMax({revLog[k].value : k \in 1..Len(revLog)})
RevMaxCells == {k \in 1..Len(revLog) : revLog[k].value = RevMax}
RevSweepPassed == pc = "P1R_end" /\ Info(readno).score = bestScore - 1

AfterPhase1R == pc \in {"P2_prepare", "P2_begin", "P2_cell", "P2_check", "P2_trace",
                        "P2_finish", "done"}

\* C5: once Phase 1 and Phase 1-R have completed, the rectangle of every read is
\* non-empty and inside the DP grid.
C5_RectangleInsideGrid ==
  AfterPhase1R =>
    \A rn \in DOMAIN outputBestScoreVector :
      /\ 0 <= Info(rn).qryRowStart
      /\ Info(rn).qryRowStart <= Info(rn).qryRowEnd
      /\ Info(rn).qryRowEnd < VecLen(readSet[rn])
      /\ 0 <= Info(rn).refColumnStart
      /\ Info(rn).refColumnStart <= Info(rn).refColumnEnd
      /\ Info(rn).refColumnEnd < graph.numVertices

\* a rectangle of more than one row and more than one column, strictly inside the grid
C5_Witness ==
  /\ pc = "P2_prepare"
  /\ Info(0).qryRowStart < Info(0).qryRowEnd
  /\ Info(0).refColumnStart < Info(0).refColumnEnd
  /\ Info(0).qryRowStart > 0
  /\ Info(0).refColumnEnd < graph.numVertices - 1

\* C6: the last row of the recomputation inside the rectangle has its maximum equal
\* to the Phase 1 score, attained at column refColumnEnd.
C6_RecomputedScoreAndLocation ==
  pc = "P2_check" =>
    /\ bestScoreReComputed = Info(readno).score
    /\ finalRow[Info(readno).refColumnEnd - j0] = bestScoreReComputed

\* a recomputation over two columns or more where an in-edge from a column left of
\* the rectangle was ignored
C6_Witness ==
  /\ pc = "P2_check"
  /\ reducedWidth >= 2
  /\ reducedHeight >= 2
  /\ \E v \in j0..(j0 + reducedWidth - 1) : \E u \in InNeighbours(v) : u < j0

\* the number of operations op in a compacted CIGAR
RECURSIVE NumOps(_, _)
NumOps(c, op) ==
  IF c = <<>> THEN 0
  ELSE (IF c[1][2] = op THEN c[1][1] ELSE 0) + NumOps(Tail(c), op)

CountedScore(c) ==
  NumOps(c, "=") * parameters.match - NumOps(c, "X") * parameters.mismatch
    - NumOps(c, "I") * parameters.ins - NumOps(c, "D") * parameters.del

\* C7: the compacted CIGAR of the traceback, scored as (#'=')*match - (#'X')*mismatch
\* - (#'I')*ins - (#'D')*del, equals the stored score.
C7_CigarScoreIsStoredScore ==
  /\ pc = "P2_finish" => CountedScore(cigarCompact(Reverse(cigar))) = Info(readno).score
  /\ pc = "done" => \A rn \in DOMAIN outputBestScoreVector :
                      CountedScore(Info(rn).cigar) = Info(rn).score

\* a stored CIGAR of two groups or more with a positive score
C7_Witness ==
  /\ pc = "done"
  /\ Len(Info(0).cigar) >= 2
  /\ Info(0).score >= 2

\* the read q spells the labels of a path of the graph
SpellsPath(q) ==
  \E path \in [0..(VecLen(q) - 1) -> 0..(graph.numVertices - 1)] :
    /\ \A k \in 0..(VecLen(q) - 1) : graph.vertex_label[path[k]] = q[k]
    /\ \A k \in 0..(VecLen(q) - 2) : HasEdge(path[k], path[k + 1])

\* C8: with match = mismatch = ins = del = 1, a read that spells a path of length
\* L >= 1 completes the three phases with score L, CIGAR L=, qryRowStart 0, qryRowEnd L-1.
C8_ExactPathRead ==
  (UnitScheme /\ VecLen(readSet[0]) >= 1 /\ SpellsPath(readSet[0])) =>
    /\ pc # "abort"
    /\ pc = "done" =>
         /\ Info(0).score = VecLen(readSet[0])
         /\ Info(0).cigar = << <<VecLen(readSet[0]), "=">> >>
         /\ Info(0).qryRowStart = 0
         /\ Info(0).qryRowEnd = VecLen(readSet[0]) - 1

\* no character of the read q equals the label of a vertex
NothingMatches(q) ==
  \A k \in 0..(VecLen(q) - 1) : \A v \in 0..(graph.numVertices - 1) :
    graph.vertex_label[v] # q[k]

\* C9: a non-empty read whose best score is 0 (nothing matches, match > 0) ends with a record
\* of score 0 and an empty CIGAR, and no assertion fails for it.
C9_ZeroScoreRead ==
  (parameters.match > 0 /\ VecLen(readSet[0]) >= 1 /\ NothingMatches(readSet[0])) =>
    /\ pc # "abort"
    /\ pc = "done" => (Info(0).score = 0 /\ Info(0).cigar = <<>>)

\* seqUtils::reverseComplement
complement(ch) ==
  CASE ch = "A" -> "T" [] ch = "C" -> "G" [] ch = "G" -> "C" [] ch = "T" -> "A"
    [] OTHER -> ch
reverseComplement(str) ==
  [k \in 0..(VecLen(str) - 1) |-> complement(str[VecLen(str) - 1 - k])]

AfterSelect == pc \notin {"start", "P1_begin", "P1_cell", "P1_end", "select"}

\* C10: Phase 1 runs on each read and on its reverse complement; the record of the
\* strictly higher score is kept, the forward record (index 2*readno) on a tie; only
\* the kept orientation's string is used by Phase 1-R and Phase 2.
C10_StrandSelection ==
  /\ pc # "start" =>
       \A rn \in DOMAIN readSet :
         /\ readSet_P1[2 * rn] = readSet[rn]
         /\ readSet_P1[2 * rn + 1] = reverseComplement(readSet[rn])
  /\ AfterSelect =>
       \A rn \in DOMAIN readSet :
         LET kept == IF bestScoreVector_P1[2 * rn + 1].score > bestScoreVector_P1[2 * rn].score
                       THEN 2 * rn + 1 ELSE 2 * rn
         IN /\ Info(rn).score = bestScoreVector_P1[kept].score
            /\ Info(rn).refColumnEnd = bestScoreVector_P1[kept].refColumnEnd
            /\ Info(rn).qryRowEnd = bestScoreVector_P1[kept].qryRowEnd
            /\ readSet_P1_R[rn] = reverse(readSet_P1[kept])
            /\ (readSet_P2 # <<>> => readSet_P2[rn] = readSet_P1[kept])

\* C11: a read that is the reverse complement of the labels of a path, and that scores
\* less as it is than its reverse complement does, ends with a record of strand '-'
\* whose score is the one its reverse complement obtains as a forward read (stated
\* for match = mismatch = ins = del = 1 and for runs that complete the three phases).
C11_ReverseStrandRecord ==
  (pc = "done" /\ UnitScheme /\ VecLen(readSet[0]) >= 1
     /\ SpellsPath(reverseComplement(readSet[0]))
     /\ MaxH(readSet[0]) < MaxH(reverseComplement(readSet[0]))) =>
    /\ Info(0).strand = "-"
    /\ Info(0).score = MaxH(reverseComplement(readSet[0]))

\* C18: an empty read never reaches an internal assertion (the claim says more: the
\* read is rejected before any phase handles it).
C18_EmptyReadFailsNoAssertion ==
  VecLen(readSet[0]) = 0 => failed = "none"

\* a list of columns is non-decreasing and lies in [lo, hi]
NonDecreasingWithin(cols, lo, hi) ==
  /\ \A k \in 1..(Len(cols) - 1) : cols[k] <= cols[k + 1]
  /\ \A k \in 1..Len(cols) : lo <= cols[k] /\ cols[k] <= hi

\* C14: the refColumns list Phase 2 stores for a read is non-decreasing in
\* char-vertex id and every entry lies in [refColumnStart, refColumnEnd].
C14_RefColumnsMonotoneInBand ==
  /\ pc = "P2_finish" =>
       NonDecreasingWithin(Reverse(used_cols), Info(readno).refColumnStart,
                           Info(readno).refColumnEnd)
  /\ pc = "done" =>
       \A rn \in DOMAIN outputBestScoreVector :
         NonDecreasingWithin(Info(rn).refColumns, Info(rn).refColumnStart,
                             Info(rn).refColumnEnd)

\* a stored list that jumps over a column: the traceback followed an edge u -> u + 2
C14_Witness ==
  /\ pc = "done"
  /\ Len(Info(0).refColumns) >= 2
  /\ \E k \in 1..(Len(Info(0).refColumns) - 1) :
       Info(0).refColumns[k + 1] - Info(0).refColumns[k] = 2

\* C12 as stated: on the chain ACGTGCCTGCT with the unit scheme, the query ACGTCCTGCT
\* yields score 8 and a CIGAR that scores 8.
C12_DeletionScenarioScore8 ==
  (pc = "done" /\ readSet[0] = Str(DeletionQuery)) =>
    /\ Info(0).score = 8
    /\ CountedScore(Info(0).cigar) = 8

\* C12 as amended: the run completes with score 9 and the CIGAR 4=1D6=, which scores
\* 9 (ten matches are impossible with one base missing, and 4 + 6 - 1 = 9).
C12_DeletionScenarioScore9 ==
  readSet[0] = Str(DeletionQuery) =>
    /\ pc # "abort"
    /\ pc = "done" =>
         /\ Info(0).score = 9
         /\ Info(0).cigar = << <<4, "=">>, <<1, "D">>, <<6, "=">> >>
         /\ CountedScore(Info(0).cigar) = 9

\* the three phases completed on the query with the dropped base
C12_Witness ==
  /\ pc = "done"
  /\ readSet[0] = Str(DeletionQuery)
  /\ NumOps(Info(0).cigar, "D") = 1

\* C13: on the chain ACGTGCCTGCT with the unit scheme, the query TTACGTGCCTGCTAA yields
\* score 11, CIGAR 11=, qryRowStart 2 and qryRowEnd 12.
C13_TrimmingScenario ==
  readSet[0] = Str(TrimmingQuery) =>
    /\ pc # "abort"
    /\ pc = "done" =>
         /\ Info(0).score = 11
         /\ Info(0).cigar = << <<11, "=">> >>
         /\ Info(0).qryRowStart = 2
         /\ Info(0).qryRowEnd = 12

\* the three phases completed on the query with the flanks
C13_Witness ==
  /\ pc = "done"
  /\ readSet[0] = Str(TrimmingQuery)
  /\ Info(0).qryRowEnd < VecLen(readSet[0]) - 1
  /\ Info(0).qryRowStart > 0

\* C15: a second call of Phase 2 on the same reads, graph, parameters and coordinates,
\* with the records holding the first call's results, fails no assertion and leaves
\* in every record the CIGAR and the refColumns of the first call.
C15_SecondCallSameResult ==
  /\ p2run = 2 => pc # "abort"
  /\ (p2run = 2 /\ pc = "done") =>
       \A rn \in DOMAIN outputBestScoreVector :
         /\ Info(rn).cigar = firstRunOutput[rn].cigar
         /\ Info(rn).refColumns = firstRunOutput[rn].refColumns

\* a second call that completed on a CIGAR of two groups or more
C15_Witness ==
  /\ p2run = 2
  /\ pc = "done"
  /\ Len(Info(0).cigar) >= 2
  /\ Len(Info(0).refColumns) >= 2

----------------------------------------------------------------------------
\* CSR_container::sort: the graph as loaded (any vertex numbering, cycles and self-loops
\* possible) is relabelled in the order found by `runs' randomised runs of Kahn's
\* algorithm; the aligner has not been given anything yet.

runs == 5
VertexIdType_max == 2147483647

\* a container as addVertexCount, initVertexSequence and initEdges leave it
CSR_container(n, diEdges, seqs) ==
  LET g == initEdges(n, diEdges, seqs)
  IN [ numVertices     |-> g.numVertices,
       numEdges        |-> g.numEdges,
       vertex_metadata |-> seqs,
       offsets_out     |-> g.offsets_out,
       adjcny_out      |-> g.adjcny_out,
       offsets_in      |-> g.offsets_in,
       adjcny_in       |-> g.adjcny_in ]

\* the out-neighbours of v, in the order of the adjacency list
OutList(g, v) ==
  [k \in 1..(g.offsets_out[v + 1] - g.offsets_out[v]) |-> g.adjcny_out[g.offsets_out[v] + k - 1]]

\* the edges the out-adjacency describes, and the edges the in-adjacency describes
OutEdges(g) ==
  {e \in (0..(g.numVertices - 1)) \X (0..(g.numVertices - 1)) :
     \E k \in g.offsets_out[e[1]]..(g.offsets_out[e[1] + 1] - 1) : g.adjcny_out[k] = e[2]}

InEdges(g) ==
  {e \in (0..(g.numVertices - 1)) \X (0..(g.numVertices - 1)) :
     \E k \in g.offsets_in[e[2]]..(g.offsets_in[e[2] + 1] - 1) : g.adjcny_in[k] = e[1]}

\* lines 1196-1197
in_degree(g) == [v \in 0..(g.numVertices - 1) |-> g.offsets_in[v + 1] - g.offsets_in[v]]

\* lines 1215-1217: the vertices of in-degree 0, pushed in ascending order
RECURSIVE ZeroDegreeQueue(_, _, _)
ZeroDegreeQueue(d, v, acc) ==
  IF v >= VecLen(d) THEN acc
  ELSE ZeroDegreeQueue(d, v + 1, IF d[v] = 0 THEN Append(acc, v) ELSE acc)

\* lines 1230-1232: the out-edges of the picked vertex are removed one by one; the
\* result is the pair <deg, Q>
RECURSIVE RemoveOutEdges(_, _, _, _)
RemoveOutEdges(out, k, d, q) ==
  IF k > Len(out) THEN <<d, q>>
  ELSE LET x  == out[k]
           d2 == [d EXCEPT ![x] = @ - 1]
       IN RemoveOutEdges(out, k + 1, d2, IF d2[x] = 0 THEN Append(q, x) ELSE q)

\* mutant: the position-to-vertex map taken to be the vertex-to-position map
ReverseOrder_isOrder(order) == order

\* lines 1128-1131 and 1264-1266: rOrder[order[i]] = i for i ascending, on a vector
\* that starts as zeros
ReverseOrder(order) ==
  [p \in 0..(VecLen(order) - 1) |->
     IF \E v \in DOMAIN order : order[v] = p
       THEN SetMax({v \in DOMAIN order : order[v] = p})
       ELSE 0]

\* mutant: the assertion of line 1281 accepts equal positions
ValidOrder_orEqual(g, order) == \A e \in OutEdges(g) : order[e[2]] >= order[e[1]]

\* line 1281: assert(to_pos > from_pos) holds for every edge
ValidOrder(g, order) == \A e \in OutEdges(g) : order[e[2]] > order[e[1]]

\* lines 1286-1289: the characters of the vertices placed strictly between two positions
RECURSIVE IntermediateWidth(_, _, _, _)
IntermediateWidth(g, rOrder, k, to_pos) ==
  IF k >= to_pos THEN 0
  ELSE (VecLen(g.vertex_metadata[rOrder[k]]) - 1) + IntermediateWidth(g, rOrder, k + 1, to_pos)

\* directedBandwidth(finalOrder), lines 1257-1305, when no assertion fails
directedBandwidth(g, order) ==
  SetMax({0} \cup
         {(order[e[2]] - order[e[1]])
            + IntermediateWidth(g, ReverseOrder(order), order[e[1]] + 1, order[e[2]]) :
          e \in OutEdges(g)})

\* lines 1159-1169: the new offsets, from the degrees in the new order
RECURSIVE NewOffset(_, _, _)
NewOffset(offsets, rOrder, p) ==
  IF p = 0 THEN 0
  ELSE NewOffset(offsets, rOrder, p - 1)
         + (offsets[rOrder[p - 1] + 1] - offsets[rOrder[p - 1]])

\* lines 1145-1155: the new adjacency, list by list in the new order, every neighbour
\* replaced by its position
NewAdjacency(offsets, adjcny, order, rOrder, m) ==
  [k \in 0..(m - 1) |->
     LET p == CHOOSE p \in DOMAIN order :
                 /\ NewOffset(offsets, rOrder, p) <= k
                 /\ k < NewOffset(offsets, rOrder, p + 1)
     IN order[adjcny[offsets[rOrder[p]] + (k - NewOffset(offsets, rOrder, p))]]]

\* sort(), lines 1127-1176: the container relabelled in the given order
Relabel(g, order) ==
  LET rOrder == ReverseOrder(order)
      n == g.numVertices
  IN [ numVertices     |-> n,
       numEdges        |-> g.numEdges,
       vertex_metadata |-> [p \in 0..(n - 1) |-> g.vertex_metadata[rOrder[p]]],
       offsets_out     |-> [p \in 0..n |-> NewOffset(g.offsets_out, rOrder, p)],
       adjcny_out      |-> NewAdjacency(g.offsets_out, g.adjcny_out, order, rOrder, g.numEdges),
       offsets_in      |-> [p \in 0..n |-> NewOffset(g.offsets_in, rOrder, p)],
       adjcny_in       |-> NewAdjacency(g.offsets_in, g.adjcny_in, order, rOrder, g.numEdges) ]

\* a 0-based vector is sorted (std::is_sorted)
IsSorted(v) == \A a \in DOMAIN v : \A b \in DOMAIN v : a < b => v[a] <= v[b]

\* verify(), lines 903-949: every assertion holds
verify(g) ==
  /\ VecLen(g.vertex_metadata) = g.numVertices
  /\ \A v \in DOMAIN g.vertex_metadata : VecLen(g.vertex_metadata[v]) > 0
  /\ VecLen(g.adjcny_in) = g.numEdges
  /\ VecLen(g.adjcny_out) = g.numEdges
  /\ \A k \in DOMAIN g.adjcny_in : g.adjcny_in[k] >= 0 /\ g.adjcny_in[k] < g.numVertices
  /\ \A k \in DOMAIN g.adjcny_out : g.adjcny_out[k] >= 0 /\ g.adjcny_out[k] < g.numVertices
  /\ VecLen(g.offsets_in) = g.numVertices + 1
  /\ VecLen(g.offsets_out) = g.numVertices + 1
  /\ \A k \in DOMAIN g.offsets_in : g.offsets_in[k] >= 0 /\ g.offsets_in[k] <= g.numEdges
  /\ \A k \in DOMAIN g.offsets_out : g.offsets_out[k] >= 0 /\ g.offsets_out[k] <= g.numEdges
  /\ IsSorted(g.offsets_in)
  /\ IsSorted(g.offsets_out)
  /\ g.offsets_in[g.numVertices] = g.numEdges
  /\ g.offsets_out[g.numVertices] = g.numEdges
  /\ \A v \in 0..(g.numVertices - 1) :
       \A k \in g.offsets_out[v]..(g.offsets_out[v + 1] - 1) : v < g.adjcny_out[k]

\* everything of the aligner, which sort() does not touch
alignstate == << input, p1vars, matrix, readno, i, j, bestScore, bestRow, bestCol,
                outputBestScoreVector, readSet_P1_R, readSet_P2, revLog, p2vars >>

\* sort() is called; topologicalSort, lines 1192-1201
sort_Begin ==
  /\ pc = "sort_start"
  /\ minbandwidth' = VertexIdType_max
  /\ run' = 0
  /\ finalOrder' = Vec(csr.numVertices, 0)
  /\ pc' = "run_begin"
  /\ UNCHANGED << alignstate, rerunvars, parvars, failed, csr, csr_before, tmpOrder, deg,
                  Q, currentOrder >>

\* lines 1205-1217: the start of one run
topologicalSort_BeginRun ==
  /\ pc = "run_begin"
  /\ tmpOrder' = Vec(csr.numVertices, 0)
  /\ currentOrder' = 0
  /\ deg' = in_degree(csr)
  /\ Q' = ZeroDegreeQueue(in_degree(csr), 0, <<>>)
  /\ pc' = "kahn"
  /\ UNCHANGED << alignstate, rerunvars, parvars, failed, csr, csr_before, finalOrder,
                  run, minbandwidth >>

\* lines 1219-1233: one iteration of the while loop; random::select may return any
\* element of Q
topologicalSort_Pick ==
  /\ pc = "kahn"
  /\ Q # <<>>
  /\ \E k \in 1..Len(Q) :
       LET v == Q[k]
           erased == SubSeq(Q, 1, k - 1) \o SubSeq(Q, k + 1, Len(Q))
           removed == RemoveOutEdges(OutList(csr, v), 1, deg, erased)
       IN /\ tmpOrder' = [tmpOrder EXCEPT ![v] = currentOrder]
          /\ currentOrder' = currentOrder + 1
          /\ deg' = removed[1]
          /\ Q' = removed[2]
  /\ UNCHANGED << alignstate, rerunvars, parvars, pc, failed, csr, csr_before, finalOrder,
                  run, minbandwidth >>

\* lines 1235-1245: the queue is empty; the bandwidth of the order of this run is
\* computed (the assertion of line 1281 included) and the best order is kept
topologicalSort_EndRun ==
  /\ pc = "kahn"
  /\ Q = <<>>
  /\ IF ValidOrder(csr, tmpOrder)
       THEN LET currentBandwidth == directedBandwidth(csr, tmpOrder)
            IN /\ IF minbandwidth > currentBandwidth
                    THEN minbandwidth' = currentBandwidth /\ finalOrder' = tmpOrder
                    ELSE UNCHANGED << minbandwidth, finalOrder >>
               /\ run' = run + 1
               /\ pc' = IF run + 1 < runs THEN "run_begin" ELSE "relabel"
               /\ UNCHANGED failed
       ELSE /\ pc' = "abort"
            /\ failed' = "to_pos_gt_from_pos"
            /\ UNCHANGED << minbandwidth, finalOrder, run >>
  /\ UNCHANGED << alignstate, rerunvars, parvars, csr, csr_before, tmpOrder, deg, Q,
                  currentOrder >>

\* sort(), lines 1124-1176: the bandwidth of the chosen order is printed (the assertion
\* of line 1281 again) and the graph is relabelled
sort_Relabel ==
  /\ pc = "relabel"
  /\ IF ValidOrder(csr, finalOrder)
       THEN /\ csr' = Relabel(csr, finalOrder)
            /\ pc' = "sorted"
            /\ UNCHANGED failed
       ELSE /\ pc' = "abort"
            /\ failed' = "to_pos_gt_from_pos"
            /\ UNCHANGED csr
  /\ UNCHANGED << alignstate, rerunvars, parvars, csr_before, finalOrder, tmpOrder, deg, Q,
                  currentOrder, run, minbandwidth >>

SortNext ==
  \/ sort_Begin
  \/ topologicalSort_BeginRun
  \/ topologicalSort_Pick
  \/ topologicalSort_EndRun
  \/ sort_Relabel

\* the graphs given to sort(): any numbering, any edges, vertex sequences of one or
\* two characters
AllPairs(n) == (0..(n - 1)) \X (0..(n - 1))

VertexSequences == {Str(<<"A">>), Str(<<"T", "A">>)}

\* nothing of the aligner exists while the graph is loaded
NotLoaded ==
  /\ graph = <<>> /\ readSet = <<>> /\ parameters = <<>> /\ matrix = <<>>
  /\ failed = "none"
  /\ readSet_P1 = <<>> /\ bestScoreVector_P1 = <<>>
  /\ readno = 0 /\ i = 0 /\ j = 0
  /\ bestScore = 0 /\ bestRow = 0 /\ bestCol = 0
  /\ outputBestScoreVector = <<>> /\ readSet_P1_R = <<>> /\ readSet_P2 = <<>>
  /\ revLog = <<>>
  /\ completeMatrixLog = <<>> /\ finalRow = <<>> /\ currentRowScores = <<>>
  /\ row = 0 /\ col = 0 /\ cigar = <<>> /\ used_cols = <<>>

SortInit ==
  /\ \E n \in 1..SortMaxV :
       \E diEdges \in SUBSET AllPairs(n) :
         \E seqs \in [0..(n - 1) -> VertexSequences] :
           csr = CSR_container(n, diEdges, seqs)
  /\ csr_before = csr
  /\ finalOrder = <<>> /\ tmpOrder = <<>> /\ deg = <<>> /\ Q = <<>>
  /\ currentOrder = 0 /\ run = 0 /\ minbandwidth = 0
  /\ pc = "sort_start"
  /\ NotLoaded
  /\ RerunInit /\ SeqInit

SortSpec == SortInit /\ [][SortNext]_vars

----------------------------------------------------------------------------
\* Claims about the team of workers (ParSpec)

\* the private state of worker w, running or parked
WorkerAt(w) == IF w = tid THEN Private ELSE parked[w]

\* the DP ring of worker w
Ring(w) == IF w = tid THEN matrix ELSE parked[w].matrix

Phase1States == {"P1_begin", "P1_cell", "P1_end"}
Phase1RStates == {"P1R_begin", "P1R_cell", "P1R_end"}
Phase2States == {"P2_begin", "P2_cell", "P2_check", "P2_trace", "P2_finish"}

\* the team is inside the parallel region of a phase, or has left the last one
TeamRuns == mode = "par" /\ pc # "start"

\* no slot of a result vector is stored into twice, and when the team returns every
\* slot of every phase was stored into once
SlotsWrittenOnce ==
  TeamRuns =>
    \A ph \in {"P1", "P1R", "P2"} :
      \A slot \in DOMAIN writers[ph] :
        /\ Len(writers[ph][slot]) <= 1
        /\ pc = "done" => Len(writers[ph][slot]) = 1

\* the team returns what the single worker returned, and fails an assertion only on
\* an input on which the single worker failed one
TeamResultIsSerialResult ==
  /\ (mode = "par" /\ pc = "done") =>
        (serialOutput.completed /\ outputBestScoreVector = serialOutput.records)
  /\ (mode = "par" /\ pc = "abort") => ~serialOutput.completed

\* a step inside a parallel region leaves the ring of every worker alone, except the
\* ring of the worker that takes the step
RingsUntouchedStep ==
  (TeamRuns /\ mode' = "par" /\ phase' = phase) =>
    \A w \in Workers : (tid' # tid \/ w # tid) => Ring(w)' = Ring(w)

\* C17: under every assignment of the iterations to the workers and every interleaving,
\* each slot of the result vectors is written by exactly one worker, no worker touches
\* the DP ring of another worker, and the result vector the team returns is the one a
\* single worker returns when it processes the reads in order.
C17_TeamEqualsSingleWorker ==
  /\ [](SlotsWrittenOnce /\ TeamResultIsSerialResult)
  /\ [][RingsUntouchedStep]_vars

\* C17 witness: the team has returned, the two reads were finished by different
\* workers in Phase 2, and the two Phase 1 entries of read 0 by different workers.
C17_Witness ==
  /\ mode = "par" /\ pc = "done"
  /\ writers["P2"][0] # writers["P2"][1]
  /\ writers["P1"][0] # writers["P1"][1]
  /\ outputBestScoreVector = serialOutput.records

\* while a phase of a read runs, the earlier phases of that read have stored their
\* fields and the later phases have stored nothing
PhasesInOrder ==
  TeamRuns =>
    \A w \in Workers :
      LET st == WorkerAt(w)
          rn == st.readno
      IN /\ st.pc \in Phase1States =>
              /\ phase = "P1"
              /\ outputBestScoreVector = <<>>
         /\ st.pc \in Phase1RStates =>
              /\ phase = "P1R"
              /\ Len(writers["P1"][2 * rn]) = 1 /\ Len(writers["P1"][2 * rn + 1]) = 1
              /\ writers["P2"][rn] = <<>>
              /\ outputBestScoreVector[rn].cigar = <<>>
              /\ outputBestScoreVector[rn].refColumns = <<>>
         /\ st.pc \in Phase2States =>
              /\ phase = "P2"
              /\ Len(writers["P1"][2 * rn]) = 1 /\ Len(writers["P1"][2 * rn + 1]) = 1
              /\ Len(writers["P1R"][rn]) = 1

\* a field a phase has stored is not stored into by a later step
FieldsKeptStep ==
  (TeamRuns /\ mode' = "par" /\ outputBestScoreVector # <<>>) =>
    \A rn \in DOMAIN outputBestScoreVector :
      LET old == outputBestScoreVector[rn]
          new == outputBestScoreVector'[rn]
      IN /\ new.score = old.score
         /\ new.refColumnEnd = old.refColumnEnd /\ new.qryRowEnd = old.qryRowEnd
         /\ Len(writers["P1R"][rn]) = 1 =>
              (new.refColumnStart = old.refColumnStart /\ new.qryRowStart = old.qryRowStart)
         /\ Len(writers["P2"][rn]) = 1 =>
              (new.cigar = old.cigar /\ new.refColumns = old.refColumns)

\* C16: for every read, Phase 1 has stored the score and the end coordinates before
\* Phase 1-R starts for that read, Phase 1-R has stored the start coordinates before
\* Phase 2 starts for it, and the fields of a later phase are still unwritten while an
\* earlier phase runs; a field once stored is never stored into again.
C16_PhasesInOrder ==
  /\ []PhasesInOrder
  /\ [][FieldsKeptStep]_vars

\* C16 witness: one worker recomputes read 1 in Phase 2 while the other worker is in
\* the traceback of read 0.
C16_Witness ==
  /\ TeamRuns
  /\ \E w \in Workers : \E x \in Workers :
       /\ WorkerAt(w).pc = "P2_cell" /\ WorkerAt(w).readno = 1
       /\ WorkerAt(x).pc = "P2_trace" /\ WorkerAt(x).readno = 0

----------------------------------------------------------------------------
\* Claims about CSR_container::sort (SortSpec)

\* the vertices reachable from the set S along at most k further edges
RECURSIVE Closure(_, _, _)
Closure(E, S, k) ==
  IF k = 0 THEN S ELSE Closure(E, S \cup {e[2] : e \in {f \in E : f[1] \in S}}, k - 1)

\* some vertex reaches itself along one edge or more
HasCycle(g) ==
  \E v \in 0..(g.numVertices - 1) :
    v \in Closure(OutEdges(g), {e[2] : e \in {f \in OutEdges(g) : f[1] = v}}, g.numVertices)

IsPermutation(order) ==
  /\ \A v \in DOMAIN order : order[v] \in DOMAIN order
  /\ \A v \in DOMAIN order : \A w \in DOMAIN order : order[v] = order[w] => v = w

\* C19: for every acyclic input graph and every sequence of random picks, sort() fails
\* no assertion, and when it has relabelled the graph the chosen order is a permutation
\* of 0..n-1, every edge u -> v has u < v, the out-adjacency and the in-adjacency both
\* describe the edges of the input under the permutation, every vertex keeps its
\* sequence, and verify() passes.
C19_SortRelabelsTopologically ==
  /\ ~HasCycle(csr_before) => pc # "abort"
  /\ pc = "sorted" =>
       /\ IsPermutation(finalOrder)
       /\ \A e \in OutEdges(csr) : e[1] < e[2]
       /\ OutEdges(csr) = {<<finalOrder[e[1]], finalOrder[e[2]]>> : e \in OutEdges(csr_before)}
       /\ InEdges(csr) = OutEdges(csr)
       /\ csr.numVertices = csr_before.numVertices
       /\ csr.numEdges = csr_before.numEdges
       /\ \A v \in 0..(csr_before.numVertices - 1) :
            csr.vertex_metadata[finalOrder[v]] = csr_before.vertex_metadata[v]
       /\ verify(csr)

\* C19 witness: a graph of three vertices and two edges or more was relabelled in an
\* order that moves every vertex, with sequences of both lengths.
C19_Witness ==
  /\ pc = "sorted"
  /\ csr.numVertices = 3 /\ csr.numEdges >= 2
  /\ \A v \in 0..2 : finalOrder[v] # v
  /\ \E v \in 0..2 : csr.vertex_metadata[v] # csr.vertex_metadata[0]

\* C20: when the input graph has a directed cycle (a self-loop included), sort() never
\* relabels the graph: for every sequence of random picks the first run ends with the
\* assertion to_pos > from_pos failing, and no other outcome is reached.
C20_CycleFailsAssertion ==
  HasCycle(csr_before) =>
    /\ pc \in {"sort_start", "run_begin", "kahn", "abort"}
    /\ run = 0
    /\ csr = csr_before
    /\ (pc = "kahn" /\ Q = <<>>) => ~ValidOrder(csr, tmpOrder)
    /\ pc = "abort" => failed = "to_pos_gt_from_pos"

\* C20 witness: sort() has aborted on a graph whose only cycle is a self-loop of a
\* vertex that the run never reached, after it ordered two other vertices.
C20_Witness ==
  /\ pc = "abort"
  /\ HasCycle(csr_before)
  /\ currentOrder = 2
  /\ \E v \in 0..(csr.numVertices - 1) :
       /\ <<v, v>> \in OutEdges(csr)
       /\ \A e \in OutEdges(csr) : e[1] = e[2] => e[1] = v

----------------------------------------------------------------------------
\* Claims about the range of the DP values

\* the block heights, the read lengths and the match scores the choice of the width
\* is evaluated on: both sides of every threshold
BlockHeights == {1, 2, 4, 8}
LadderLengths == {1, 2, 3, 63, 64, 125, 126, 127, 128, 16383, 16384, 32766, 32767, 32768}
LadderMatches == {1, 2}

\* every value of a read of length len fits the width chosen for a batch whose longest
\* read is at least len
WidthHoldsEveryValue ==
  \A len \in LadderLengths : \A longest \in LadderLengths : \A m \in LadderMatches :
    \A bh \in BlockHeights :
      len <= longest =>
        /\ len * m <= TypeMax(Phase1_precision(PaddedLength(longest, bh), m))
        /\ len * m + 1 <= TypeMax(Phase1_rev_precision(PaddedLength(longest, bh), m))

\* C21: every value the forward sweep stores in row i lies in 0..(i+1)*match, hence in
\* 0..L*match, and the score is not negative; every value the reverse sweep stores, the
\* raised end cell included, lies in 0..L*match+1; and the width chosen from the
\* longest read (8 bits up to 127, resp. 126 for the reverse sweep, 16 bits up to 32767,
\* resp. 32766, else 32 bits) holds every such value.
C21_ValuesFitLaneWidth ==
  /\ pc = "P1_cell" =>
       /\ 0 <= Phase1_currentMax
       /\ Phase1_currentMax <= (i + 1) * parameters.match
       /\ (i + 1) * parameters.match <= VecLen(readSet_P1[readno]) * parameters.match
       /\ Phase1_currentMax
            <= TypeMax(Phase1_precision(PaddedLength(maxReadLength, 1), parameters.match))
  /\ pc = "P1_end" => bestScore >= 0
  /\ pc \in {"P1R_cell", "P1R_end", "abort"} =>
       \A k \in 1..Len(revLog) :
         /\ 0 <= revLog[k].value
         /\ revLog[k].value <= VecLen(readSet[0]) * parameters.match + 1
         /\ revLog[k].value
              <= TypeMax(Phase1_rev_precision(PaddedLength(maxReadLength, 1), parameters.match))
  /\ WidthHoldsEveryValue

\* C21 witness: the reverse sweep of a read of three characters has stored the largest
\* value the claim allows, L*match + 1 = 4.
C21_Witness ==
  /\ pc = "P1R_end"
  /\ VecLen(readSet[0]) = 3 /\ parameters.match = 1
  /\ \E k \in 1..Len(revLog) : revLog[k].value = 4

----------------------------------------------------------------------------
\* Claims about the choice among equal candidates

\* the cells of the read q that attain the maximum of the recurrence
MaxCells(q) ==
  LET m == MaxH(q)
  IN {c \in (0..(VecLen(q) - 1)) \X (0..(graph.numVertices - 1)) : H(q, c[1], c[2]) = m}

\* the cell of S scanned last in row-major order
LastScanned(S) == CHOOSE c \in S : \A d \in S : d = c \/ PairLess(d, c)

\* C22: among the cells of the forward DP that attain the maximum score, Phase 1
\* records the one scanned last in row-major order as (qryRowEnd, refColumnEnd); when
\* every cell is 0 it records the last cell (L-1, n-1).
C22_LastMaximumCellRecorded ==
  pc = "select" =>
    \A r \in DOMAIN bestScoreVector_P1 :
      LET q == readSet_P1[r]
          rec == bestScoreVector_P1[r]
      IN VecLen(q) >= 1 =>
           /\ <<rec.qryRowEnd, rec.refColumnEnd>> = LastScanned(MaxCells(q))
           /\ rec.score = 0 =>
                (rec.qryRowEnd = VecLen(q) - 1 /\ rec.refColumnEnd = graph.numVertices - 1)

\* C22 witness: a positive maximum attained in two rows or more, the recorded cell not
\* being the first of them.
C22_Witness ==
  /\ pc = "select"
  /\ MaxH(readSet_P1[0]) >= 1
  /\ \E c \in MaxCells(readSet_P1[0]) : c[1] < bestScoreVector_P1[0].qryRowEnd

----------------------------------------------------------------------------
\* Claims about the vertical differences of Phase 2

Abs(x) == IF x < 0 THEN 0 - x ELSE x

Phase2States_seq == {"P2_cell", "P2_check", "P2_trace", "P2_finish"}

\* the differences recorded so far for the read in Phase 2 (entries not yet written
\* hold the 0 they were created with)
RecordedDifferences ==
  {completeMatrixLog[a][b] : a \in 0..(reducedHeight - 1), b \in 0..(reducedWidth - 1)}

RECURSIVE H2(_, _)
H2(a, b) ==
  IF a < 0 THEN 0
  ELSE LET ms == matchScoreOf(graph.vertex_label[b + j0], readSet_P2[readno][a + i0])
           nbrs == {u - j0 : u \in {v \in InNeighbours(b + j0) : v >= j0}}
       IN SetMax({0, ms, H2(a - 1, b) - parameters.ins}
                 \cup {H2(a - 1, u) + ms : u \in nbrs}
                 \cup {H2(a, u) - parameters.del : u \in nbrs})

\* the schemes and differences the int8 store is evaluated on: both ends of the range
WideSchemes == [ins : {0, 1, 127, 128}, match : {0, 1, 126, 127}, del : {0, 1, 126, 127}]

\* a difference in -ins..match+del is stored as it is when ins <= 128, match+del <= 127
Int8KeepsDifference ==
  \A w \in WideSchemes :
    (w.ins <= 128 /\ w.match + w.del <= 127) =>
      \A d \in {0 - w.ins, 1 - w.ins, -1, 0, 1, w.match + w.del - 1, w.match + w.del} :
        (0 - w.ins <= d /\ d <= w.match + w.del) => Int8(d) = d

\* C29: every recorded vertical difference lies in -ins..match+del, such a difference
\* is stored in the int8 matrix without wrap-around when ins <= 128 and
\* match + del <= 127, and the rows the traceback rebuilds from the differences are the
\* rows of the recomputed DP.
C29_DifferencesRebuildRows ==
  /\ pc \in Phase2States_seq =>
       \A d \in RecordedDifferences :
         0 - parameters.ins <= d /\ d <= parameters.match + parameters.del
  /\ Int8KeepsDifference
  /\ (pc = "P2_trace" /\ row >= 0) =>
       /\ currentRowScores = [b \in 0..(reducedWidth - 1) |-> H2(row, b)]
       /\ aboveRowScores = [b \in 0..(reducedWidth - 1) |-> H2(row - 1, b)]

\* C29 witness: the traceback is in a row above the last one, which it rebuilt from a
\* row of differences holding both a negative and a positive entry.
C29_Witness ==
  /\ pc = "P2_trace"
  /\ row >= 0 /\ row < reducedHeight - 1
  /\ \E b \in 0..(reducedWidth - 1) : completeMatrixLog[row + 1][b] < 0
  /\ \E b \in 0..(reducedWidth - 1) : completeMatrixLog[row + 1][b] > 0

----------------------------------------------------------------------------
\* Claims about the traceback

\* the traceback is at a cell of positive score: the body of the loop runs past line 384
InTraceBody ==
  /\ pc = "P2_trace"
  /\ col >= 0 /\ row >= 0 /\ col < reducedWidth
  /\ currentRowScores[col] > 0

\* the in-neighbours of the column of the traceback that lie in the rectangle, as
\* columns of the rectangle, in the order of the in-adjacency list
BandNbrIndexes ==
  {k \in graph.offsets_in[col + j0]..(graph.offsets_in[col + j0 + 1] - 1) :
     graph.adjcny_in[k] >= j0}

TraceMatchScore ==
  matchScoreOf(graph.vertex_label[col + j0], readSet_P2[readno][row + i0])

\* the three candidates of the cell, as maxima over the in-neighbours
BestMatchCandidate ==
  SetMax({TraceMatchScore} \cup
         {aboveRowScores[graph.adjcny_in[k] - j0] + TraceMatchScore : k \in BandNbrIndexes})

BestDeletionCandidate ==
  SetMax({-1} \cup
         {currentRowScores[graph.adjcny_in[k] - j0] - parameters.del : k \in BandNbrIndexes})

InsertionCandidate == aboveRowScores[col] - parameters.ins

\* the in-neighbours attaining the best match candidate, resp. deletion candidate
MatchAttainers ==
  {k \in BandNbrIndexes :
     aboveRowScores[graph.adjcny_in[k] - j0] + TraceMatchScore = BestMatchCandidate}

DeletionAttainers ==
  {k \in BandNbrIndexes :
     currentRowScores[graph.adjcny_in[k] - j0] - parameters.del = BestDeletionCandidate}

\* the column of the first entry of the in-adjacency list among the indexes K
FirstEncountered(K) ==
  graph.adjcny_in[CHOOSE k \in K : \A m \in K : k <= m] - j0

\* what a step of the traceback does at a cell of positive score, by the priority
\* match/mismatch, deletion, insertion
PriorityStep ==
  IF currentRowScores[col] = BestMatchCandidate
    THEN /\ cigar' = Append(cigar, IF TraceMatchScore = parameters.match THEN "=" ELSE "X")
         /\ IF BestMatchCandidate = TraceMatchScore
              THEN pc' = "P2_finish" /\ row' = row /\ col' = col
              ELSE pc' = "P2_trace" /\ row' = row - 1
                   /\ col' = FirstEncountered(MatchAttainers)
  ELSE IF currentRowScores[col] = BestDeletionCandidate
    THEN /\ cigar' = Append(cigar, "D")
         /\ pc' = "P2_trace" /\ row' = row
         /\ col' = FirstEncountered(DeletionAttainers)
  ELSE /\ currentRowScores[col] = InsertionCandidate
       /\ cigar' = Append(cigar, "I")
       /\ pc' = "P2_trace" /\ row' = row - 1 /\ col' = col

\* C24: at every step of the traceback the predecessor is chosen in the order
\* match/mismatch, deletion, insertion: when the cell equals the best match/mismatch
\* candidate, '=' or 'X' is emitted even if a deletion or an insertion attains the cell
\* too, and among the in-neighbours attaining the best candidate the first of the
\* in-adjacency list is taken.
C24_TracePriority == [][InTraceBody => PriorityStep]_vars

\* C24 witness: the traceback is at a cell that the best match candidate attains
\* together with the deletion or the insertion candidate, and two in-neighbours both
\* attain the best match candidate.
C24_Witness ==
  /\ InTraceBody
  /\ currentRowScores[col] = BestMatchCandidate
  /\ BestMatchCandidate > TraceMatchScore
  /\ currentRowScores[col] = BestDeletionCandidate \/ currentRowScores[col] = InsertionCandidate
  /\ Cardinality(MatchAttainers) >= 2

----------------------------------------------------------------------------
\* Claims about the ring between reads

OutNeighbours(v) ==
  {graph.adjcny_out[k] : k \in graph.offsets_out[v]..(graph.offsets_out[v + 1] - 1)}

\* the value the reverse sweep of the current read stored for cell (a, b), if it has
\* stored that cell: the set holds that one value, else it is empty
StoredByThisSweep(a, b) ==
  {revLog[k].value : k \in {m \in 1..Len(revLog) : revLog[m].i = a /\ revLog[m].j = b}}

\* the ring values the forward sweep reads for cell (i, j) are the values of the
\* recurrence of the current read
ForwardReadsOwnValues ==
  pc = "P1_cell" =>
    LET q == readSet_P1[readno]
    IN /\ \A u \in InNeighbours(j) :
            /\ u < j
            /\ matrix[And1(i)][u] = H(q, i, u)
            /\ matrix[And1(i - 1)][u] = H(q, i - 1, u)
       /\ matrix[And1(i - 1)][j] = H(q, i - 1, j)

\* the ring values the reverse sweep reads for cell (i, j) were stored by the sweep of
\* the current read, or belong to the zero row -1
ReverseReadsOwnValues ==
  pc = "P1R_cell" =>
    /\ \A u \in OutNeighbours(j) :
         /\ u > j
         /\ StoredByThisSweep(i, u) = {matrix[And1(i)][u]}
         /\ IF i = 0 THEN matrix[And1(i - 1)][u] = 0
                     ELSE StoredByThisSweep(i - 1, u) = {matrix[And1(i - 1)][u]}
    /\ IF i = 0 THEN matrix[And1(i - 1)][j] = 0
                ELSE StoredByThisSweep(i - 1, j) = {matrix[And1(i - 1)][j]}

\* what the forward sweep found for a read depends on the read and the graph only
ForwardResultOfReadOnly ==
  pc = "P1_end" =>
    LET q == readSet_P1[readno]
    IN /\ bestScore = MaxH(q)
       /\ VecLen(q) >= 1 => <<bestRow, bestCol>> = LastScanned(MaxCells(q))

\* C25: every ring value the forward (resp. reverse) sweep of a read reads was written
\* earlier in the sweep of that read or is the zero of row -1: when cell (i, j) is
\* computed, ring row i & 1 holds H(i, u) for every in-neighbour (resp. out-neighbour)
\* u; so the result of a read does not depend on the reads the worker swept before,
\* although only ring row 1 is reset between reads.
C25_RingHoldsCurrentRead ==
  /\ ForwardReadsOwnValues
  /\ ReverseReadsOwnValues
  /\ ForwardResultOfReadOnly

\* C25 witness: the single worker starts the sweep of the second read, which differs
\* from the first, while ring row 0 still holds a positive value of the first read in
\* a column the sweep has not reached.
C25_Witness ==
  /\ mode = "seq" /\ pc = "P1_cell"
  /\ readno = 2 /\ i = 0
  /\ readSet[0] # readSet[1]
  /\ \E b \in j..(graph.numVertices - 1) : matrix[0][b] > 0

----------------------------------------------------------------------------
\* Claims about where the traceback stops

\* the number of CIGAR operations that consume a character of the read
QueryConsumed(c) == NumOps(c, "=") + NumOps(c, "X") + NumOps(c, "I")

\* the record's CIGAR and columns span the record's rectangle
SpansRectangle(e) ==
  /\ QueryConsumed(e.cigar) = e.qryRowEnd - e.qryRowStart + 1
  /\ e.refColumns # <<>>
  /\ e.refColumns[1] = e.refColumnStart
  /\ e.refColumns[Len(e.refColumns)] = e.refColumnEnd

\* C26: the traceback of every read stops at the top-left cell of its rectangle: in
\* the record of a completed run the '=', 'X' and 'I' operations of the CIGAR number
\* qryRowEnd - qryRowStart + 1, the first entry of refColumns is refColumnStart and
\* the last is refColumnEnd.
C26_TraceStopsAtTopLeft ==
  pc = "done" => \A rn \in DOMAIN outputBestScoreVector : SpansRectangle(Info(rn))

----------------------------------------------------------------------------
\* Claims about the column of the deletion branch

\* the traceback takes the deletion branch at the current cell (line 444)
DeletionBranchTaken ==
  /\ InTraceBody
  /\ currentRowScores[col] # Phase2_candidates.fromMatch
  /\ currentRowScores[col] = Phase2_candidates.fromDeletion

\* C27: whenever the traceback takes the deletion branch (the cell is positive, is not
\* the match candidate and equals fromDeletion), an in-neighbour inside the rectangle
\* has assigned fromDeletionPos in the same step: some in-band in-neighbour attains the
\* cell by a deletion, and the column the traceback moves to is the first of them.
C27_DeletionColumnAssigned ==
  DeletionBranchTaken =>
    /\ Phase2_candidates.fromDeletionPosSet
    /\ DeletionAttainers # {}
    /\ Phase2_candidates.fromDeletionPos = FirstEncountered(DeletionAttainers)

\* C27 witness: the traceback is at a positive cell that only a deletion explains.
C27_Witness ==
  /\ DeletionBranchTaken
  /\ currentRowScores[col] # Phase2_candidates.fromInsertion

----------------------------------------------------------------------------
\* Claims about the termination of the traceback

\* an iteration of the loop that runs its body: the loop condition of line 381 holds
InTraceLoop == pc = "P2_trace" /\ col >= 0 /\ row >= 0

\* row and col are inside the rectangle wherever the body of the loop uses them
TraceAccessesInRange ==
  /\ InTraceLoop => /\ row <= reducedHeight - 1
                    /\ col <= reducedWidth - 1
                    /\ row + i0 < VecLen(readSet_P2[readno])
                    /\ col + j0 < graph.numVertices
  /\ failed # "p2_col_out_of_range"

\* the position of the traceback in the order it descends
TraceRank(r, c) == (r + 1) * (reducedWidth + 1) + (c + 1)

\* an iteration leaves the loop, or goes one row up, or stays in the row at a strictly
\* smaller column of the rectangle; the position descends and is never negative
TraceDescends ==
  InTraceLoop =>
    \/ pc' # "P2_trace"
    \/ /\ \/ (row' = row - 1 /\ 0 <= col' /\ col' <= col)
           \/ (row' = row /\ 0 <= col' /\ col' < col)
       /\ TraceRank(row', col') < TraceRank(row, col)
       /\ TraceRank(row', col') >= 0

\* C28: the traceback loop of Phase 2 terminates: every iteration leaves the loop,
\* decrements row, or moves col to a strictly smaller column of the rectangle, so a
\* position bounded below descends at every iteration; and wherever the body uses
\* them, row is in [0, reducedHeight - 1] and col in [0, reducedWidth - 1].
C28_TraceTerminatesInRange == [](TraceAccessesInRange) /\ [][TraceDescends]_vars

\* C28 witness: the traceback has taken steps of all three kinds and is still in the
\* loop, above the last row and left of the last column.
C28_Witness ==
  /\ InTraceLoop
  /\ row < reducedHeight - 1 /\ col < reducedWidth - 1
  /\ \E k \in 1..Len(cigar) : cigar[k] = "D"
  /\ \E k \in 1..Len(cigar) : cigar[k] = "I"
  /\ \E k \in 1..Len(cigar) : cigar[k] \in {"=", "X"}

----------------------------------------------------------------------------
\* Claims about the fall-through of the traceback

\* the traceback reaches the else branch of line 453: neither the match nor the
\* deletion candidate attains the cell
FallThrough ==
  /\ InTraceBody
  /\ currentRowScores[col] # Phase2_candidates.fromMatch
  /\ currentRowScores[col] # Phase2_candidates.fromDeletion

\* C30: at every step of the traceback at a cell of positive score, the cell equals one
\* of the three candidates recomputed from the rebuilt rows (it is their maximum), so
\* when neither the match nor the deletion candidate attains it, it equals
\* fromInsertion and the assertion of line 455 does not fail.
C30_CellIsOneOfItsCandidates ==
  /\ InTraceBody =>
       /\ currentRowScores[col] =
            SetMax({BestMatchCandidate, BestDeletionCandidate, InsertionCandidate})
       /\ Phase2_edit(Phase2_candidates) # "none"
  /\ FallThrough => currentRowScores[col] = Phase2_candidates.fromInsertion
  /\ failed # "p2_trace_insertion"

\* C30 witness: the traceback is at a positive cell in a row above which a row of the
\* rectangle lies, and neither the match nor the deletion candidate attains the cell.
C30_Witness ==
  /\ FallThrough
  /\ row >= 1

====
